---- MODULE Spec2Model ----
(***************************************************************************)
(* Cross-section mesh engine of crosage/potassium: the transect conflict   *)
(* resolver (processing/normals.py), the mesh builder                      *)
(* (processing/close_shape.py, processing/splitting.py), the spatial       *)
(* locator (utils/helpers.py) and the endpoint projector                   *)
(* (processing/ditch.py).                                                  *)
(*                                                                         *)
(* Geometry is exact integer geometry.  A shapely Point is a pair <<x,y>>, *)
(* a LineString is the sequence of its coordinates, a query point of the   *)
(* locator is a rational point <<nx, ny, q>> (= (nx/q, ny/q), q > 0).      *)
(* The boundary curves are rectilinear (axis-parallel segments), so every  *)
(* arc length is an integer and |dx| + |dy| is the length of a segment.    *)
(* Python lists are 0-based, the sequences here are 1-based.               *)
(***************************************************************************)
EXTENDS Integers, Sequences, FiniteSets, TLC

VARIABLES
    pc,                   \* position in the pipeline (main.py, run_processing_pipeline)
    points_with_normals,  \* remove_crossing_normals: its argument
    alive,                \* remove_crossing_normals: alive[i]
    crossings,            \* remove_crossing_normals: dict i -> crossing count
    intersecting_pairs,   \* remove_crossing_normals: dict i -> set of indices crossing i
    total_crossings,      \* remove_crossing_normals: loop variable
    iterations,           \* number of loop iterations remove_crossing_normals has run
    normals,              \* main.py: the list remove_crossing_normals returned
    meters,               \* generate_closed_shapes_with_polylines: its argument
    closed_shapes,        \* generate_closed_shapes_with_polylines: the cells so far
    shape_i,              \* generate_closed_shapes_with_polylines: loop index (1-based)
    ditchs,               \* process_ditch_endpoints: its argument
    ditch_k,              \* process_ditch_endpoints: position of the for loop (1-based)
    csv_rows,             \* process_ditch_endpoints: rows written to ditch_results.csv
    all_geometries_for_shp,  \* process_ditch_endpoints: records for the shapefile
    proj_start_north_point,  \* process_ditch_endpoints: loop local
    proj_end_north_point,    \* process_ditch_endpoints: loop local
    dam_length,              \* process_ditch_endpoints: loop local
    sub_line,             \* extract_subcurve: its argument line
    sub_point1,           \* extract_subcurve: its argument point1
    sub_point2,           \* extract_subcurve: its argument point2
    subcurve,             \* extract_subcurve(line, point1, point2): the value returned
    subcurve_swapped,     \* extract_subcurve(line, point2, point1): the value returned
    polylines,            \* merge_polylines: its argument, the Polyline objects as they are now
    polylines_at_call,    \* merge_polylines: the Polyline objects as they were at the call
    polylines_to_process, \* merge_polylines: set of (indices of) fragments not yet merged
    merged_points,        \* merge_polylines: the list being grown
    merged_points_owner,  \* index of the fragment whose points list merged_points is, or 0
    merged_polyline,      \* merge_polylines: the value returned
    center_line,          \* generate_infinite_normals_...: its argument line
    north,                \* generate_infinite_normals_...: its argument north
    south,                \* generate_infinite_normals_...: its argument south
    interval,             \* generate_infinite_normals_...: its argument interval
    distance,             \* generate_infinite_normals_...: the loop variable
    visited               \* the values the loop variable has taken, in order

resolver_vars == <<points_with_normals, alive, crossings, intersecting_pairs,
                   total_crossings, iterations>>

ditch_vars == <<ditchs, ditch_k, csv_rows, all_geometries_for_shp,
                proj_start_north_point, proj_end_north_point, dam_length>>

extract_vars == <<sub_line, sub_point1, sub_point2, subcurve, subcurve_swapped>>

\* The state of the operations that are exercised on their own.
merge_vars == <<polylines, polylines_at_call, polylines_to_process, merged_points,
                merged_points_owner, merged_polyline>>

generator_vars == <<center_line, north, south, interval, distance, visited>>

unit_vars == <<extract_vars, merge_vars, generator_vars>>

vars == <<pc, resolver_vars, normals, meters, closed_shapes, shape_i, ditch_vars, unit_vars>>

(***************************************************************************)
(* Bounds of the model.                                                    *)
(***************************************************************************)
MaxNormals == 3

MaxDitchs == 2

MaxFragments == 3

(***************************************************************************)
(* Small arithmetic.                                                       *)
(***************************************************************************)
Abs(x) == IF x < 0 THEN -x ELSE x

Min(a, b) == IF a <= b THEN a ELSE b

Max(a, b) == IF a >= b THEN a ELSE b

Sgn(x) == IF x > 0 THEN 1 ELSE IF x < 0 THEN -1 ELSE 0

Reverse(s) == [k \in 1..Len(s) |-> s[Len(s) + 1 - k]]

(***************************************************************************)
(* The two boundary curves (north_dam_line, south_dam_line), both oriented *)
(* from the smaller x to the larger x as orient_line_by_coordinate leaves  *)
(* them, and the transects the model draws its inputs from: a station on   *)
(* the centerline y = 4 and the span [A-point on north, B-point on south]. *)
(***************************************************************************)
north_line == << <<0, 8>>, <<16, 8>>, <<32, 8>> >>

south_line == << <<0, 0>>, <<16, 0>>, <<32, 0>> >>

Positions == {0, 16, 32}

Transect(a, b) == << <<(a + b) \div 2, 4>>, << <<a, 8>>, <<b, 0>> >> >>

Transects == {Transect(a, b) : a \in Positions, b \in Positions}

\* The values of shape_max_length the model draws from.
Meters == {8, 20}

(***************************************************************************)
(* shapely: LineString.bounds, the R-tree's box test (closed boxes), and   *)
(* LineString.intersects for two-point lines (closed segments: touching    *)
(* at an endpoint and collinear overlap both intersect).                   *)
(***************************************************************************)
RECURSIVE MinCoord(_, _), MaxCoord(_, _)
MinCoord(line, c) ==
    IF Len(line) = 1 THEN line[1][c]
    ELSE Min(line[1][c], MinCoord(Tail(line), c))

MaxCoord(line, c) ==
    IF Len(line) = 1 THEN line[1][c]
    ELSE Max(line[1][c], MaxCoord(Tail(line), c))

bounds(line) ==
    <<MinCoord(line, 1), MinCoord(line, 2), MaxCoord(line, 1), MaxCoord(line, 2)>>

\* Mutant: open boxes, so that boxes that only touch are not candidates.
idx_intersection_open(b1, b2) ==
    /\ b1[1] < b2[3] /\ b2[1] < b1[3]
    /\ b1[2] < b2[4] /\ b2[2] < b1[4]

idx_intersection(b1, b2) ==
    /\ b1[1] <= b2[3] /\ b2[1] <= b1[3]
    /\ b1[2] <= b2[4] /\ b2[2] <= b1[4]

Orient(o, a, b) ==
    Sgn((a[1] - o[1]) * (b[2] - o[2]) - (a[2] - o[2]) * (b[1] - o[1]))

OnSegment(p, a, b) ==
    /\ Orient(a, b, p) = 0
    /\ Min(a[1], b[1]) <= p[1] /\ p[1] <= Max(a[1], b[1])
    /\ Min(a[2], b[2]) <= p[2] /\ p[2] <= Max(a[2], b[2])

intersects(line1, line2) ==
    LET p1 == line1[1]
        p2 == line1[2]
        p3 == line2[1]
        p4 == line2[2]
    IN  \/ /\ Orient(p3, p4, p1) * Orient(p3, p4, p2) < 0
           /\ Orient(p1, p2, p3) * Orient(p1, p2, p4) < 0
        \/ OnSegment(p1, p3, p4)
        \/ OnSegment(p2, p3, p4)
        \/ OnSegment(p3, p1, p2)
        \/ OnSegment(p4, p1, p2)

(***************************************************************************)
(* processing/normals.py, remove_crossing_normals.                         *)
(***************************************************************************)
\* Mutant: the test i == j is missing, so every line crosses itself.
InitialIntersecting_with_self(pwn, i) ==
    {j \in 1..Len(pwn) :
        /\ idx_intersection(bounds(pwn[j][2]), bounds(pwn[i][2]))
        /\ intersects(pwn[i][2], pwn[j][2])}

\* Lines 35-43: the indices the R-tree returns for line i, then the exact test.
InitialIntersecting(pwn, i) ==
    {j \in 1..Len(pwn) :
        /\ idx_intersection(bounds(pwn[j][2]), bounds(pwn[i][2]))
        /\ i # j
        /\ intersects(pwn[i][2], pwn[j][2])}

\* Mutant: among the candidates with the highest count the last one is taken.
MaxCrossIndex_last_of_ties(cr, al) ==
    LET candidates == {i \in DOMAIN cr : al[i] /\ cr[i] > 0}
    IN  CHOOSE i \in candidates :
            /\ \A j \in candidates : cr[j] <= cr[i]
            /\ \A j \in candidates : cr[j] = cr[i] => j <= i

\* Lines 56-59: max(candidates, key=...) returns the first maximal element of
\* the list, which is in ascending index order (dict insertion order).
MaxCrossIndex(cr, al) ==
    LET candidates == {i \in DOMAIN cr : al[i] /\ cr[i] > 0}
    IN  CHOOSE i \in candidates :
            /\ \A j \in candidates : cr[j] <= cr[i]
            /\ \A j \in candidates : cr[j] = cr[i] => i <= j

\* Mutant: the survivors are collected from the last to the first.
Survivors_last_first(pwn, al) ==
    LET F[k \in 0..Len(pwn)] ==
            IF k = 0 THEN <<>>
            ELSE IF al[k] THEN <<pwn[k]>> \o F[k - 1] ELSE F[k - 1]
    IN  F[Len(pwn)]

\* Line 86: [p for i, p in enumerate(points_with_normals) if alive[i]]
Survivors(pwn, al) ==
    LET F[k \in 0..Len(pwn)] ==
            IF k = 0 THEN <<>>
            ELSE IF al[k] THEN Append(F[k - 1], pwn[k]) ELSE F[k - 1]
    IN  F[Len(pwn)]

\* Lines 14-52: the alive flags, the R-tree, the initial counts.
remove_crossing_normals_count ==
    /\ pc = "remove_count"
    /\ alive' = [i \in 1..Len(points_with_normals) |-> TRUE]
    /\ intersecting_pairs' =
           [i \in 1..Len(points_with_normals) |->
               InitialIntersecting(points_with_normals, i)]
    /\ crossings' =
           [i \in 1..Len(points_with_normals) |->
               Cardinality(InitialIntersecting(points_with_normals, i))]
    /\ total_crossings' =
           Cardinality({i \in 1..Len(points_with_normals) :
                           InitialIntersecting(points_with_normals, i) # {}})
    /\ pc' = "remove_loop"
    /\ UNCHANGED unit_vars
    /\ UNCHANGED <<points_with_normals, iterations, normals, meters,
                   closed_shapes, shape_i, ditch_vars>>

\* Mutant: the counts of the lines that crossed the removed one are not
\* decremented.
remove_crossing_normals_loop_stale_counts ==
    /\ pc = "remove_loop"
    /\ total_crossings > 0
    /\ {i \in DOMAIN crossings : alive[i] /\ crossings[i] > 0} # {}
    /\ LET max_cross_index == MaxCrossIndex(crossings, alive)
           alive1 == [alive EXCEPT ![max_cross_index] = FALSE]
           crossings1 == [m \in DOMAIN crossings \ {max_cross_index} |-> crossings[m]]
       IN  /\ alive' = alive1
           /\ crossings' = crossings1
           /\ intersecting_pairs' =
                  [m \in DOMAIN intersecting_pairs \ {max_cross_index} |->
                      intersecting_pairs[m]]
           /\ total_crossings' =
                  Cardinality({i \in DOMAIN crossings1 :
                                  alive1[i] /\ crossings1[i] > 0})
    /\ iterations' = iterations + 1
    /\ UNCHANGED unit_vars
    /\ UNCHANGED <<pc, points_with_normals, normals, meters, closed_shapes, shape_i,
                   ditch_vars>>

\* Mutant: the line with the highest count is not marked as removed.
remove_crossing_normals_loop_keeps_alive ==
    /\ pc = "remove_loop"
    /\ total_crossings > 0
    /\ {i \in DOMAIN crossings : alive[i] /\ crossings[i] > 0} # {}
    /\ iterations' = iterations + 1
    /\ UNCHANGED unit_vars
    /\ UNCHANGED <<pc, points_with_normals, alive, crossings, intersecting_pairs,
                   total_crossings, normals, meters, closed_shapes, shape_i, ditch_vars>>

\* Lines 54-80: one iteration of the while loop.
remove_crossing_normals_loop ==
    /\ pc = "remove_loop"
    /\ total_crossings > 0
    /\ {i \in DOMAIN crossings : alive[i] /\ crossings[i] > 0} # {}
    /\ LET max_cross_index == MaxCrossIndex(crossings, alive)
           alive1 == [alive EXCEPT ![max_cross_index] = FALSE]
           hit == {m \in intersecting_pairs[max_cross_index] : alive1[m]}
           crossings1 ==
               [m \in DOMAIN crossings \ {max_cross_index} |->
                   IF m \in hit THEN crossings[m] - 1 ELSE crossings[m]]
       IN  /\ alive' = alive1
           /\ crossings' = crossings1
           /\ intersecting_pairs' =
                  [m \in DOMAIN intersecting_pairs \ {max_cross_index} |->
                      IF m \in hit
                      THEN intersecting_pairs[m] \ {max_cross_index}
                      ELSE intersecting_pairs[m]]
           /\ total_crossings' =
                  Cardinality({i \in DOMAIN crossings1 :
                                  alive1[i] /\ crossings1[i] > 0})
    /\ iterations' = iterations + 1
    /\ UNCHANGED unit_vars
    /\ UNCHANGED <<pc, points_with_normals, normals, meters, closed_shapes, shape_i,
                   ditch_vars>>

\* Lines 54, 57-58, 86: the loop ends and the survivors are returned.
remove_crossing_normals_return ==
    /\ pc = "remove_loop"
    /\ ~ (/\ total_crossings > 0
          /\ {i \in DOMAIN crossings : alive[i] /\ crossings[i] > 0} # {})
    /\ normals' = Survivors(points_with_normals, alive)
    /\ pc' = "remove_done"
    /\ UNCHANGED unit_vars
    /\ UNCHANGED <<points_with_normals, alive, crossings, intersecting_pairs,
                   total_crossings, iterations, meters, closed_shapes, shape_i,
                   ditch_vars>>

(***************************************************************************)
(* geometry/normals.py, remove_crossing_normals: the counts are taken anew *)
(* over the whole list after every removal.                                *)
(***************************************************************************)
\* Lines 87-91: crossings[i], the number of the other lines line i intersects.
naive_crossings(pwn, i) ==
    Cardinality({j \in 1..Len(pwn) : i # j /\ intersects(pwn[i][2], pwn[j][2])})

\* Line 98: max(crossings, key=crossings.get), the first index with the
\* highest count.
naive_max_cross_index(pwn) ==
    CHOOSE i \in 1..Len(pwn) :
        /\ \A j \in 1..Len(pwn) : naive_crossings(pwn, j) <= naive_crossings(pwn, i)
        /\ \A j \in 1..(i - 1) : naive_crossings(pwn, j) < naive_crossings(pwn, i)

\* Line 104: points_with_normals.pop(max_cross_index).
Pop(pwn, i) == SubSeq(pwn, 1, i - 1) \o SubSeq(pwn, i + 1, Len(pwn))

\* Lines 79-110: max() of the empty dict raises, the handler leaves the
\* loop and the (empty) list is returned.
RECURSIVE naive_remove_crossing_normals(_)
naive_remove_crossing_normals(pwn) ==
    IF pwn = <<>> THEN pwn
    ELSE IF naive_crossings(pwn, naive_max_cross_index(pwn)) = 0 THEN pwn
         ELSE naive_remove_crossing_normals(Pop(pwn, naive_max_cross_index(pwn)))

(***************************************************************************)
(* shapely on rectilinear LineStrings: length, project (arc length of the  *)
(* nearest point, the first nearest segment winning ties), interpolate and *)
(* shapely.ops.substring (a Point when the two distances are equal, the    *)
(* reversed sub-curve when the first distance is the larger one).  A Point *)
(* is a one-coordinate sequence, the empty LineString is <<>>.             *)
(***************************************************************************)
SegLen(a, b) == Abs(b[1] - a[1]) + Abs(b[2] - a[2])

RECURSIVE CumLen(_, _)
CumLen(line, k) ==
    IF k <= 1 THEN 0 ELSE CumLen(line, k - 1) + SegLen(line[k - 1], line[k])

Length(line) == IF Len(line) < 2 THEN 0 ELSE CumLen(line, Len(line))

Clamp(v, lo, hi) == IF v < lo THEN lo ELSE IF v > hi THEN hi ELSE v

NearestOnSeg(p, a, b) ==
    <<Clamp(p[1], Min(a[1], b[1]), Max(a[1], b[1])),
      Clamp(p[2], Min(a[2], b[2]), Max(a[2], b[2]))>>

Dist2(p, r) == (p[1] - r[1]) * (p[1] - r[1]) + (p[2] - r[2]) * (p[2] - r[2])

SegDist2(line, k, p) == Dist2(p, NearestOnSeg(p, line[k], line[k + 1]))

Project(line, p) ==
    IF Len(line) < 2 THEN 0
    ELSE LET k == CHOOSE s \in 1..(Len(line) - 1) :
                      /\ \A t \in 1..(Len(line) - 1) :
                             SegDist2(line, s, p) <= SegDist2(line, t, p)
                      /\ \A t \in 1..(s - 1) :
                             SegDist2(line, s, p) < SegDist2(line, t, p)
         IN  CumLen(line, k) + SegLen(line[k], NearestOnSeg(p, line[k], line[k + 1]))

PointOnSeg(a, b, d) ==
    <<a[1] + Sgn(b[1] - a[1]) * d, a[2] + Sgn(b[2] - a[2]) * d>>

RECURSIVE InterpolateFrom(_, _, _)
InterpolateFrom(line, k, d) ==
    IF k = Len(line) - 1 \/ d <= SegLen(line[k], line[k + 1])
    THEN PointOnSeg(line[k], line[k + 1], Min(d, SegLen(line[k], line[k + 1])))
    ELSE InterpolateFrom(line, k + 1, d - SegLen(line[k], line[k + 1]))

Interpolate(line, d) ==
    IF Len(line) < 2 THEN line[1]
    ELSE InterpolateFrom(line, 1, Clamp(d, 0, Length(line)))

RECURSIVE InnerVertices(_, _, _, _)
InnerVertices(line, k, lo, hi) ==
    IF k >= Len(line) \/ CumLen(line, k) >= hi THEN <<>>
    ELSE IF lo < CumLen(line, k)
         THEN <<line[k]>> \o InnerVertices(line, k + 1, lo, hi)
         ELSE InnerVertices(line, k + 1, lo, hi)

\* Mutant: the distances are swapped when the first is the larger one, so
\* the result always runs in the direction of the line.
Substring_swapped(line, start_dist, end_dist) ==
    IF start_dist = end_dist THEN <<Interpolate(line, start_dist)>>
    ELSE <<Interpolate(line, Min(start_dist, end_dist))>>
             \o InnerVertices(line, 1, Min(start_dist, end_dist), Max(start_dist, end_dist))
             \o <<Interpolate(line, Max(start_dist, end_dist))>>

Substring(line, start_dist, end_dist) ==
    IF start_dist = end_dist THEN <<Interpolate(line, start_dist)>>
    ELSE LET lo == Min(start_dist, end_dist)
             hi == Max(start_dist, end_dist)
             forward == <<Interpolate(line, lo)>>
                            \o InnerVertices(line, 1, lo, hi)
                            \o <<Interpolate(line, hi)>>
         IN  IF start_dist > end_dist THEN Reverse(forward) ELSE forward

(***************************************************************************)
(* processing/splitting.py, extract_subcurve: no swap of the distances;    *)
(* an exception of project or substring yields the empty LineString.       *)
(***************************************************************************)
\* Mutant: the sub-curve starts at the start of the line, not at point1.
extract_subcurve_from_start(line, point1, point2) ==
    IF Len(line) < 2 THEN <<>>
    ELSE Substring(line, 0, Project(line, point2))

extract_subcurve(line, point1, point2) ==
    IF Len(line) < 2 THEN <<>>
    ELSE Substring(line, Project(line, point1), Project(line, point2))

(***************************************************************************)
(* processing/close_shape.py.                                              *)
(***************************************************************************)
\* Lines 40-57: the cell of one pair; geometry/close_shape.py, ClosedShape.
ClosedShape(upper_segment, lower_segment, current_above, current_below, next_above, next_below) ==
    LET polygon_coords ==
            <<current_above>> \o upper_segment \o <<next_above, next_below>>
                \o lower_segment \o <<current_below, current_above>>
    IN  [intersections  |-> polygon_coords,
         work_line_1    |-> <<current_above, current_below>>,
         work_line_2    |-> <<next_above, next_below>>,
         tangent_line_1 |-> upper_segment,
         tangent_line_2 |-> lower_segment,
         polygon        |-> polygon_coords]

\* Mutant: only the upper boundary's length decides a split.
NeedsSplit_upper_only(upper_segment, lower_segment, m) ==
    Length(upper_segment) > m

\* Mutant: a sub-curve of exactly the maximal length is split too.
NeedsSplit_at_least(upper_segment, lower_segment, m) ==
    Length(upper_segment) >= m \/ Length(lower_segment) >= m

\* Line 17: the test that decides a split.
NeedsSplit(upper_segment, lower_segment, m) ==
    Length(upper_segment) > m \/ Length(lower_segment) > m

\* Lines 19-20: interpolate(0.5, normalized=True).
MidPoint(segment) == Interpolate(segment, Length(segment) \div 2)

\* Mutant: the two halves of a split are not split again.
split_shape_if_needed_once(upper_segment, lower_segment, m, current_above, current_below, next_above, next_below) ==
    IF NeedsSplit(upper_segment, lower_segment, m)
    THEN LET mid_upper == MidPoint(upper_segment)
             mid_lower == MidPoint(lower_segment)
         IN  <<ClosedShape(extract_subcurve(upper_segment, current_above, mid_upper),
                           extract_subcurve(lower_segment, mid_lower, current_below),
                           current_above, current_below, mid_upper, mid_lower),
               ClosedShape(extract_subcurve(upper_segment, mid_upper, next_above),
                           extract_subcurve(lower_segment, next_below, mid_lower),
                           mid_upper, mid_lower, next_above, next_below)>>
    ELSE <<ClosedShape(upper_segment, lower_segment, current_above, current_below,
                       next_above, next_below)>>

RECURSIVE split_shape_if_needed(_, _, _, _, _, _, _)
split_shape_if_needed(upper_segment, lower_segment, m, current_above, current_below, next_above, next_below) ==
    IF NeedsSplit(upper_segment, lower_segment, m)
    THEN LET mid_upper == MidPoint(upper_segment)
             mid_lower == MidPoint(lower_segment)
             left_upper == extract_subcurve(upper_segment, current_above, mid_upper)
             left_lower == extract_subcurve(lower_segment, mid_lower, current_below)
             right_upper == extract_subcurve(upper_segment, mid_upper, next_above)
             right_lower == extract_subcurve(lower_segment, next_below, mid_lower)
         IN  split_shape_if_needed(left_upper, left_lower, m, current_above,
                                   current_below, mid_upper, mid_lower)
                 \o split_shape_if_needed(right_upper, right_lower, m, mid_upper,
                                          mid_lower, next_above, next_below)
    ELSE <<ClosedShape(upper_segment, lower_segment, current_above,
                       current_below, next_above, next_below)>>

\* Mutant: the cells of the right half come before those of the left half.
ShapesOfPair_right_first(current, next, m) ==
    Reverse(split_shape_if_needed(
        extract_subcurve(north_line, current[2][1], next[2][1]),
        extract_subcurve(south_line, next[2][2], current[2][2]),
        m, current[2][1], current[2][2], next[2][1], next[2][2]))

\* Lines 67-84: the cells of the pair (center_normals[i], center_normals[i + 1]).
ShapesOfPair(current, next, m) ==
    LET current_above == current[2][1]
        current_below == current[2][2]
        next_above == next[2][1]
        next_below == next[2][2]
        upper_segment == extract_subcurve(north_line, current_above, next_above)
        lower_segment == extract_subcurve(south_line, next_below, current_below)
    IN  split_shape_if_needed(upper_segment, lower_segment, m, current_above,
                              current_below, next_above, next_below)

\* main.py: the call of generate_closed_shapes_with_polylines (line 65: the
\* empty list); remove_crossing_normals has returned and its locals are gone.
generate_closed_shapes_call ==
    /\ pc = "remove_done"
    /\ meters' \in Meters
    /\ closed_shapes' = <<>>
    /\ shape_i' = 1
    /\ points_with_normals' = <<>>
    /\ alive' = <<>>
    /\ crossings' = <<>>
    /\ intersecting_pairs' = <<>>
    /\ total_crossings' = 0
    /\ iterations' = 0
    /\ pc' = "shapes_loop"
    /\ UNCHANGED unit_vars
    /\ UNCHANGED <<normals, ditch_vars>>

\* Lines 66-84: one iteration of the for loop.
generate_closed_shapes_loop ==
    /\ pc = "shapes_loop"
    /\ shape_i <= Len(normals) - 1
    /\ closed_shapes' =
           closed_shapes \o ShapesOfPair(normals[shape_i], normals[shape_i + 1], meters)
    /\ shape_i' = shape_i + 1
    /\ UNCHANGED unit_vars
    /\ UNCHANGED <<pc, resolver_vars, normals, meters, ditch_vars>>

\* Line 86: return closed_shapes.
generate_closed_shapes_return ==
    /\ pc = "shapes_loop"
    /\ shape_i > Len(normals) - 1
    /\ pc' = "shapes_done"
    /\ UNCHANGED unit_vars
    /\ UNCHANGED <<resolver_vars, normals, meters, closed_shapes, shape_i,
                   ditch_vars>>

(***************************************************************************)
(* shapely on polygons, for a rational point P = <<nx, ny, q>>: the        *)
(* R-tree's box test for a point (closed box), Polygon.contains (interior  *)
(* only: a point of the ring is not contained; parity of the ring's        *)
(* crossings of the ray to the right of P) and Polygon.centroid (the area  *)
(* centroid).                                                              *)
(***************************************************************************)
Rat(point) == <<point[1], point[2], 1>>

BoxHasPoint(b, P) ==
    /\ b[1] * P[3] <= P[1] /\ P[1] <= b[3] * P[3]
    /\ b[2] * P[3] <= P[2] /\ P[2] <= b[4] * P[3]

OnEdge(a, b, P) ==
    /\ (b[1] - a[1]) * (P[2] - a[2] * P[3]) = (b[2] - a[2]) * (P[1] - a[1] * P[3])
    /\ Min(a[1], b[1]) * P[3] <= P[1] /\ P[1] <= Max(a[1], b[1]) * P[3]
    /\ Min(a[2], b[2]) * P[3] <= P[2] /\ P[2] <= Max(a[2], b[2]) * P[3]

RayCrosses(a, b, P) ==
    /\ (a[2] * P[3] > P[2]) # (b[2] * P[3] > P[2])
    /\ IF b[2] > a[2]
       THEN (P[1] - a[1] * P[3]) * (b[2] - a[2]) < (P[2] - a[2] * P[3]) * (b[1] - a[1])
       ELSE (P[1] - a[1] * P[3]) * (b[2] - a[2]) > (P[2] - a[2] * P[3]) * (b[1] - a[1])

polygon_contains(ring, P) ==
    /\ \A k \in 1..(Len(ring) - 1) : ~ OnEdge(ring[k], ring[k + 1], P)
    /\ Cardinality({k \in 1..(Len(ring) - 1) : RayCrosses(ring[k], ring[k + 1], P)}) % 2 = 1

RECURSIVE RingSum(_, _, _)
\* what = 0: twice the signed area; what = 1, 2: the x, y moment (times 6).
RingSum(ring, k, what) ==
    IF k >= Len(ring) THEN 0
    ELSE LET a == ring[k]
             b == ring[k + 1]
             cross == a[1] * b[2] - b[1] * a[2]
         IN  (IF what = 0 THEN cross ELSE (a[what] + b[what]) * cross)
                 + RingSum(ring, k + 1, what)

polygon_centroid(ring) ==
    LET area2 == RingSum(ring, 1, 0)
    IN  IF area2 = 0 THEN Rat(ring[1])
        ELSE <<Sgn(area2) * RingSum(ring, 1, 1), Sgn(area2) * RingSum(ring, 1, 2),
               3 * Abs(area2)>>

(***************************************************************************)
(* utils/helpers.py, make_shape_finder: find_point over the indexed cells. *)
(* None is <<>>; a match is <<i, shape>> (i is 1-based here).              *)
(***************************************************************************)
None == <<>>

\* Mutant: the box indexed for a cell is that of its tangent_line_1 alone.
candidate_indices_of_tangent_box(shapes, P) ==
    {i \in 1..Len(shapes) : BoxHasPoint(bounds(shapes[i].tangent_line_1), P)}

\* Lines 48-51, 57: the indices whose bounding box holds the query point.
candidate_indices(shapes, P) ==
    {i \in 1..Len(shapes) : BoxHasPoint(bounds(shapes[i].polygon), P)}

\* Mutant: the first bounding-box candidate is returned without the exact test.
find_point_box_only(shapes, P) ==
    IF candidate_indices(shapes, P) = {} THEN None
    ELSE LET i == CHOOSE h \in candidate_indices(shapes, P) :
                      \A g \in candidate_indices(shapes, P) : h <= g
         IN  <<i, shapes[i]>>

\* Lines 59-63: the candidates in ascending order, the first that contains P.
find_point(shapes, P) ==
    LET hits == {i \in candidate_indices(shapes, P) :
                    polygon_contains(shapes[i].polygon, P)}
    IN  IF hits = {} THEN None
        ELSE LET i == CHOOSE h \in hits : \A g \in hits : h <= g
             IN  <<i, shapes[i]>>

(***************************************************************************)
(* processing/ditch.py, process_ditch_endpoints.  The features the model   *)
(* draws its batches from: geometry/polyline.py Polyline (points,          *)
(* attributes), rectilinear so that their own length is an integer.        *)
(***************************************************************************)
Ditch(code, points) ==
    [points |-> points, attributes |-> [CODE |-> code, RIVERPART |-> "r1"]]

Ditches ==
    {Ditch("c1", << <<12, 4>>, <<4, 4>> >>),
     Ditch("c2", << <<4, 2>>, <<4, 6>>, <<26, 6>> >>),
     Ditch("c3", << <<28, 4>>, <<28, 12>> >>),
     Ditch("c4", << <<40, 4>>, <<20, 4>> >>),
     Ditch("c5", << <<20, 2>>, <<4, 4>> >>)}

\* f"{x:.2f}" of an integral length: the length in hundredths.
Fmt2(x) == 100 * x

\* Lines 147-150: the header row.
CsvHeader == <<"name", "DATE", "RIVERPART", "CODE", "ditch", "dam", "manual">>

\* Lines 172-174, 184-186: the projection of an endpoint onto its cell's
\* tangent_line_1 (the guard `shape and hasattr(...)` holds for every ClosedShape).
ProjectOnTangent1(shape, point) ==
    Interpolate(shape.tangent_line_1, Project(shape.tangent_line_1, point))

\* Mutant: the difference of the two arc positions, with its sign.
DamLength_signed(proj_start, proj_end) ==
    Project(north_line, proj_end) - Project(north_line, proj_start)

\* Lines 189-192: both projections are non-empty Points, hence truthy.
DamLength(proj_start, proj_end) ==
    Length(extract_subcurve(north_line, proj_start, proj_end))

\* Lines 196-201: manual_shp_path is None, manual_projections stays empty.
ManualLength == 0

\* Lines 204-208: the CSV row of a feature.
CsvRow(ditch, dam_len) ==
    <<"N/A", "N/A", ditch.attributes.RIVERPART, ditch.attributes.CODE,
      Fmt2(Length(ditch.points)), Fmt2(dam_len), Fmt2(ManualLength)>>

\* Lines 211-230: the records kept for the shapefile (the manual projection
\* is None and gives none; the dam projection only when dam_length > 0).
ShpRecords(ditch, dam_len, proj_start, proj_end) ==
    LET base_record ==
            [CODE |-> ditch.attributes.CODE, RIVERPART |-> ditch.attributes.RIVERPART,
             ditch_len |-> Length(ditch.points), dam_len |-> dam_len,
             manual_len |-> ManualLength]
        original == [base |-> base_record, line_type |-> "original_ditch",
                     geometry |-> ditch.points]
        dam == [base |-> base_record, line_type |-> "dam_projection",
                geometry |-> extract_subcurve(north_line, proj_start, proj_end)]
    IN  IF dam_len > 0 THEN <<original, dam>> ELSE <<original>>

\* main.py: the call of process_ditch_endpoints; lines 94, 147-151.
process_ditch_endpoints_call ==
    /\ pc = "shapes_done"
    /\ ditchs' \in UNION {[1..n -> Ditches] : n \in 0..MaxDitchs}
    /\ ditch_k' = 1
    /\ csv_rows' = <<CsvHeader>>
    /\ all_geometries_for_shp' = <<>>
    /\ pc' = "ditch_loop"
    /\ UNCHANGED unit_vars
    /\ UNCHANGED <<resolver_vars, normals, meters, closed_shapes, shape_i,
                   proj_start_north_point, proj_end_north_point, dam_length>>

\* Mutant: an unresolved start point ends the loop (break instead of continue).
process_ditch_start_missing_break ==
    /\ pc = "ditch_loop"
    /\ ditch_k <= Len(ditchs)
    /\ find_point(closed_shapes, Rat(ditchs[ditch_k].points[1])) = None
    /\ ditch_k' = Len(ditchs) + 1
    /\ UNCHANGED unit_vars
    /\ UNCHANGED <<pc, resolver_vars, normals, meters, closed_shapes, shape_i,
                   ditchs, csv_rows, all_geometries_for_shp,
                   proj_start_north_point, proj_end_north_point, dam_length>>

\* Lines 164-168: the start point is in no cell; continue.
process_ditch_start_missing ==
    /\ pc = "ditch_loop"
    /\ ditch_k <= Len(ditchs)
    /\ find_point(closed_shapes, Rat(ditchs[ditch_k].points[1])) = None
    /\ ditch_k' = ditch_k + 1
    /\ UNCHANGED unit_vars
    /\ UNCHANGED <<pc, resolver_vars, normals, meters, closed_shapes, shape_i,
                   ditchs, csv_rows, all_geometries_for_shp,
                   proj_start_north_point, proj_end_north_point, dam_length>>

\* Lines 164-180: the start point is found and projected, the end point is
\* in no cell; continue.
process_ditch_end_missing ==
    /\ pc = "ditch_loop"
    /\ ditch_k <= Len(ditchs)
    /\ LET ditch == ditchs[ditch_k]
           start_point == ditch.points[1]
           end_point == ditch.points[Len(ditch.points)]
           find_result_start == find_point(closed_shapes, Rat(start_point))
       IN  /\ find_result_start # None
           /\ find_point(closed_shapes, Rat(end_point)) = None
           /\ proj_start_north_point' =
                  ProjectOnTangent1(find_result_start[2], start_point)
    /\ ditch_k' = ditch_k + 1
    /\ UNCHANGED unit_vars
    /\ UNCHANGED <<pc, resolver_vars, normals, meters, closed_shapes, shape_i,
                   ditchs, csv_rows, all_geometries_for_shp,
                   proj_end_north_point, dam_length>>

\* Mutant: the start projection is computed for the first resolved feature
\* only and kept for the features after it.
process_ditch_resolved_stale ==
    /\ pc = "ditch_loop"
    /\ ditch_k <= Len(ditchs)
    /\ LET ditch == ditchs[ditch_k]
           start_point == ditch.points[1]
           end_point == ditch.points[Len(ditch.points)]
           find_result_start == find_point(closed_shapes, Rat(start_point))
           find_result_end == find_point(closed_shapes, Rat(end_point))
       IN  /\ find_result_start # None
           /\ find_result_end # None
           /\ LET proj_start ==
                      IF proj_start_north_point # None THEN proj_start_north_point
                      ELSE ProjectOnTangent1(find_result_start[2], start_point)
                  proj_end == ProjectOnTangent1(find_result_end[2], end_point)
                  dam_len == DamLength(proj_start, proj_end)
              IN  /\ proj_start_north_point' = proj_start
                  /\ proj_end_north_point' = proj_end
                  /\ dam_length' = dam_len
                  /\ csv_rows' = Append(csv_rows, CsvRow(ditch, dam_len))
                  /\ all_geometries_for_shp' =
                         all_geometries_for_shp
                             \o ShpRecords(ditch, dam_len, proj_start, proj_end)
    /\ ditch_k' = ditch_k + 1
    /\ UNCHANGED unit_vars
    /\ UNCHANGED <<pc, resolver_vars, normals, meters, closed_shapes, shape_i, ditchs>>

\* Lines 164-230: both endpoints are found; the row and the records are written.
process_ditch_resolved ==
    /\ pc = "ditch_loop"
    /\ ditch_k <= Len(ditchs)
    /\ LET ditch == ditchs[ditch_k]
           start_point == ditch.points[1]
           end_point == ditch.points[Len(ditch.points)]
           find_result_start == find_point(closed_shapes, Rat(start_point))
           find_result_end == find_point(closed_shapes, Rat(end_point))
       IN  /\ find_result_start # None
           /\ find_result_end # None
           /\ LET proj_start == ProjectOnTangent1(find_result_start[2], start_point)
                  proj_end == ProjectOnTangent1(find_result_end[2], end_point)
                  dam_len == DamLength(proj_start, proj_end)
              IN  /\ proj_start_north_point' = proj_start
                  /\ proj_end_north_point' = proj_end
                  /\ dam_length' = dam_len
                  /\ csv_rows' = Append(csv_rows, CsvRow(ditch, dam_len))
                  /\ all_geometries_for_shp' =
                         all_geometries_for_shp
                             \o ShpRecords(ditch, dam_len, proj_start, proj_end)
    /\ ditch_k' = ditch_k + 1
    /\ UNCHANGED unit_vars
    /\ UNCHANGED <<pc, resolver_vars, normals, meters, closed_shapes, shape_i, ditchs>>

\* Lines 154, 357: the loop is over; return.
process_ditch_endpoints_return ==
    /\ pc = "ditch_loop"
    /\ ditch_k > Len(ditchs)
    /\ pc' = "done"
    /\ UNCHANGED unit_vars
    /\ UNCHANGED <<resolver_vars, normals, meters, closed_shapes, shape_i, ditchs,
                   ditch_k, csv_rows, all_geometries_for_shp,
                   proj_start_north_point, proj_end_north_point, dam_length>>

(***************************************************************************)
(* The pipeline.                                                           *)
(***************************************************************************)
\* Nothing has been asked of extract_subcurve.
ExtractIdle ==
    /\ sub_line = <<>>
    /\ sub_point1 = None
    /\ sub_point2 = None
    /\ subcurve = None
    /\ subcurve_swapped = None

\* Nothing has been asked of merge_polylines.
MergeIdle ==
    /\ polylines = <<>>
    /\ polylines_at_call = <<>>
    /\ polylines_to_process = {}
    /\ merged_points = <<>>
    /\ merged_points_owner = 0
    /\ merged_polyline = None

\* Nothing has been asked of the transect generator.
GeneratorIdle ==
    /\ center_line = <<>>
    /\ north = <<>>
    /\ south = <<>>
    /\ interval = 0
    /\ distance = 0
    /\ visited = <<>>

Init ==
    /\ pc = "remove_count"
    /\ points_with_normals \in UNION {[1..n -> Transects] : n \in 0..MaxNormals}
    /\ alive = <<>>
    /\ crossings = <<>>
    /\ intersecting_pairs = <<>>
    /\ total_crossings = 0
    /\ iterations = 0
    /\ normals = <<>>
    /\ meters = 0
    /\ closed_shapes = <<>>
    /\ shape_i = 0
    /\ ditchs = <<>>
    /\ ditch_k = 0
    /\ csv_rows = <<>>
    /\ all_geometries_for_shp = <<>>
    /\ proj_start_north_point = None
    /\ proj_end_north_point = None
    /\ dam_length = 0
    /\ ExtractIdle
    /\ MergeIdle
    /\ GeneratorIdle

Next ==
    \/ remove_crossing_normals_count
    \/ remove_crossing_normals_loop
    \/ remove_crossing_normals_return
    \/ generate_closed_shapes_call
    \/ generate_closed_shapes_loop
    \/ generate_closed_shapes_return
    \/ process_ditch_endpoints_call
    \/ process_ditch_start_missing
    \/ process_ditch_end_missing
    \/ process_ditch_resolved
    \/ process_ditch_endpoints_return

Spec == Init /\ [][Next]_vars

(***************************************************************************)
(* remove_crossing_normals on its own: the call on a list of transects,    *)
(* up to its return.                                                       *)
(***************************************************************************)
NextResolver ==
    \/ remove_crossing_normals_count
    \/ remove_crossing_normals_loop
    \/ remove_crossing_normals_return

SpecResolver == Init /\ [][NextResolver]_vars

\* The call runs on: a step that can be taken is taken.
SpecResolverLive == SpecResolver /\ WF_vars(NextResolver)

(***************************************************************************)
(* processing/splitting.py, extract_subcurve on its own: every line and    *)
(* pair of points of a small set, in both orders of the points.            *)
(***************************************************************************)
SubLines ==
    {north_line,
     << <<0, 0>>, <<8, 0>>, <<8, 8>> >>,
     << <<0, 8>>, <<0, 0>>, <<8, 0>>, <<8, 8>> >>}

SubPoints ==
    {<<0, 8>>, <<4, 8>>, <<16, 8>>, <<32, 8>>, <<8, 0>>, <<8, 4>>, <<0, 0>>,
     <<20, 12>>, <<3, 1>>}

\* The pipeline is not running.
PipelineIdle ==
    /\ points_with_normals = <<>>
    /\ alive = <<>>
    /\ crossings = <<>>
    /\ intersecting_pairs = <<>>
    /\ total_crossings = 0
    /\ iterations = 0
    /\ normals = <<>>
    /\ meters = 0
    /\ closed_shapes = <<>>
    /\ shape_i = 0
    /\ ditchs = <<>>
    /\ ditch_k = 0
    /\ csv_rows = <<>>
    /\ all_geometries_for_shp = <<>>
    /\ proj_start_north_point = None
    /\ proj_end_north_point = None
    /\ dam_length = 0

pipeline_vars == <<resolver_vars, normals, meters, closed_shapes, shape_i, ditch_vars>>

\* extract_subcurve(line, point1, point2).
extract_subcurve_call ==
    /\ pc = "extract"
    /\ subcurve' = extract_subcurve(sub_line, sub_point1, sub_point2)
    /\ pc' = "extract_swapped"
    /\ UNCHANGED <<pipeline_vars, merge_vars, generator_vars, sub_line, sub_point1,
                   sub_point2, subcurve_swapped>>

\* extract_subcurve(line, point2, point1).
extract_subcurve_call_swapped ==
    /\ pc = "extract_swapped"
    /\ subcurve_swapped' = extract_subcurve(sub_line, sub_point2, sub_point1)
    /\ pc' = "extract_done"
    /\ UNCHANGED <<pipeline_vars, merge_vars, generator_vars, sub_line, sub_point1,
                   sub_point2, subcurve>>

InitExtract ==
    /\ pc = "extract"
    /\ PipelineIdle
    /\ sub_line \in SubLines
    /\ sub_point1 \in SubPoints
    /\ sub_point2 \in SubPoints
    /\ subcurve = None
    /\ subcurve_swapped = None
    /\ MergeIdle
    /\ GeneratorIdle

NextExtract ==
    \/ extract_subcurve_call
    \/ extract_subcurve_call_swapped

SpecExtract == InitExtract /\ [][NextExtract]_vars

(***************************************************************************)
(* processing/merging.py, merge_polylines on its own.  The fragments are   *)
(* the pieces of a simple rectilinear path, in any order and orientation.  *)
(* polylines_to_process is a Python set of objects: the order in which it  *)
(* is iterated is not fixed, so where that order decides (equal points,    *)
(* equal distances) every outcome is possible.                             *)
(***************************************************************************)
Paths ==
    {<< <<0, 0>>, <<4, 0>>, <<4, 4>>, <<8, 4>>, <<8, 0>> >>,
     << <<6, 0>>, <<0, 0>>, <<0, 6>>, <<6, 6>>, <<6, 3>> >>,
     << <<9, 9>>, <<9, 5>>, <<2, 5>>, <<2, 1>> >>}

\* The pieces of path cut at the vertices of index in cuts.
Pieces(path, cuts) ==
    LET ends == cuts \cup {1, Len(path)}
    IN  {SubSeq(path, a, b) : <<a, b>> \in
            {ab \in ends \X ends :
                /\ ab[1] < ab[2]
                /\ \A c \in ends : ~ (ab[1] < c /\ c < ab[2])}}

CutSets(path) ==
    {cuts \in SUBSET (2..(Len(path) - 1)) : Cardinality(cuts) < MaxFragments}

\* Every list of Polyline objects made of the pieces, each once, either way round.
Presentations(pieces) ==
    {[i \in 1..Cardinality(pieces) |-> [id |-> i, points |-> f[i]]] :
        f \in {g \in [1..Cardinality(pieces) ->
                         pieces \cup {Reverse(piece) : piece \in pieces}] :
                  \A piece \in pieces :
                      \E i \in 1..Cardinality(pieces) :
                          g[i] \in {piece, Reverse(piece)}}}

FragmentLists ==
    {<<>>} \cup UNION {Presentations(Pieces(path, cuts)) :
                          <<path, cuts>> \in
                              {pair \in Paths \X SUBSET (2..4) : pair[2] \in CutSets(pair[1])}}

\* Lists with a gap: the pieces of a path but for one piece from its inside,
\* so that the fragments on either side of the gap do not touch.
InnerPieces(path, cuts) ==
    {piece \in Pieces(path, cuts) :
        piece[1] # path[1] /\ piece[Len(piece)] # path[Len(path)]}

GapCutSets(path) ==
    {cuts \in SUBSET (2..(Len(path) - 1)) :
        2 <= Cardinality(cuts) /\ Cardinality(cuts) <= MaxFragments}

GappedLists ==
    UNION {UNION {Presentations(Pieces(pair[1], pair[2]) \ {piece}) :
                     piece \in InnerPieces(pair[1], pair[2])} :
              pair \in {pc2 \in Paths \X SUBSET (2..4) : pc2[2] \in GapCutSets(pc2[1])}}

\* point.x < min_point.x or (point.x == min_point.x and point.y < min_point.y)
PointLess(point, min_point) ==
    \/ point[1] < min_point[1]
    \/ point[1] = min_point[1] /\ point[2] < min_point[2]

EndPoints(fragment) == {fragment.points[1], fragment.points[Len(fragment.points)]}

\* Lines 10-25: the first fragment, in iteration order, with the smallest
\* endpoint; <<index, reversed>>.  Its own list is returned when the point
\* is its first point, a reversed copy otherwise.
find_starting_polyline(frs) ==
    {<<i, frs[i].points[1] # min_point>> : <<i, min_point>> \in
        {im \in (DOMAIN frs) \X UNION {EndPoints(frs[j]) : j \in DOMAIN frs} :
            /\ im[2] \in EndPoints(frs[im[1]])
            /\ \A j \in DOMAIN frs : \A q \in EndPoints(frs[j]) : ~ PointLess(q, im[2])}}

\* min(start_dist, end_dist) of one fragment (squared).
EndDist2(current_end, fragment) ==
    Min(Dist2(current_end, fragment.points[1]),
        Dist2(current_end, fragment.points[Len(fragment.points)]))

\* Mutant: the closest fragment is always taken the way round it is stored.
find_closest_polyline_as_stored(current_end, frs, to_process) ==
    {<<i, FALSE, EndDist2(current_end, frs[i])>> : i \in
        {j \in to_process :
            \A k \in to_process : EndDist2(current_end, frs[j]) <= EndDist2(current_end, frs[k])}}

\* Lines 28-57: the first fragment, in iteration order, at the smallest
\* distance; <<index, reversed, squared distance>>.  The start of a
\* fragment is tried before its end.
find_closest_polyline(current_end, frs, to_process) ==
    {<<i, Dist2(current_end, frs[i].points[1]) # EndDist2(current_end, frs[i]),
       EndDist2(current_end, frs[i])>> : i \in
        {j \in to_process :
            \A k \in to_process : EndDist2(current_end, frs[j]) <= EndDist2(current_end, frs[k])}}

Oriented(points, reversed) == IF reversed THEN Reverse(points) ELSE points

\* Lines 64-65.
merge_polylines_empty ==
    /\ pc = "merge_call"
    /\ polylines = <<>>
    /\ merged_polyline' = None
    /\ pc' = "merge_done"
    /\ UNCHANGED <<pipeline_vars, extract_vars, generator_vars,
                   polylines, polylines_at_call,
                   polylines_to_process, merged_points, merged_points_owner>>

\* Lines 67-73.
merge_polylines_call ==
    /\ pc = "merge_call"
    /\ polylines # <<>>
    /\ \E start \in find_starting_polyline(polylines) :
           /\ merged_points' = Oriented(polylines[start[1]].points, start[2])
           /\ merged_points_owner' = IF start[2] THEN 0 ELSE start[1]
           /\ polylines_to_process' = (DOMAIN polylines) \ {start[1]}
    /\ pc' = "merge_loop"
    /\ UNCHANGED <<pipeline_vars, extract_vars, generator_vars,
                   polylines, polylines_at_call,
                   merged_polyline>>

\* Mutant: the nearest endpoint of the fragment put before the head is
\* left out only when it is the head itself.
merge_polylines_prepend_keeps_gap_point ==
    /\ pc = "merge_loop"
    /\ polylines_to_process # {}
    /\ \E to_append \in find_closest_polyline(merged_points[Len(merged_points)],
                                              polylines, polylines_to_process) :
       \E to_prepend \in find_closest_polyline(merged_points[1],
                                               polylines, polylines_to_process) :
           /\ to_prepend[3] < to_append[3]
           /\ LET points == Reverse(Oriented(polylines[to_prepend[1]].points, to_prepend[2]))
              IN  merged_points' =
                      IF points[Len(points)] = merged_points[1]
                      THEN SubSeq(points, 1, Len(points) - 1) \o merged_points
                      ELSE points \o merged_points
           /\ merged_points_owner' = 0
           /\ polylines_to_process' = polylines_to_process \ {to_prepend[1]}
    /\ UNCHANGED <<pc, pipeline_vars, extract_vars, generator_vars,
                   polylines, polylines_at_call,
                   merged_polyline>>

\* Lines 79-99: the closest fragment is nearer to the head; a new list is built.
merge_polylines_prepend ==
    /\ pc = "merge_loop"
    /\ polylines_to_process # {}
    /\ \E to_append \in find_closest_polyline(merged_points[Len(merged_points)],
                                              polylines, polylines_to_process) :
       \E to_prepend \in find_closest_polyline(merged_points[1],
                                               polylines, polylines_to_process) :
           /\ to_prepend[3] < to_append[3]
           /\ LET points == Reverse(Oriented(polylines[to_prepend[1]].points, to_prepend[2]))
              IN  merged_points' = SubSeq(points, 1, Len(points) - 1) \o merged_points
           /\ merged_points_owner' = 0
           /\ polylines_to_process' = polylines_to_process \ {to_prepend[1]}
    /\ UNCHANGED <<pc, pipeline_vars, extract_vars, generator_vars,
                   polylines, polylines_at_call,
                   merged_polyline>>

\* Mutant: the fragment closest to the tail is appended whatever the
\* distance to the head.
merge_polylines_append_tail_only ==
    /\ pc = "merge_loop"
    /\ polylines_to_process # {}
    /\ \E to_append \in find_closest_polyline(merged_points[Len(merged_points)],
                                              polylines, polylines_to_process) :
           /\ LET points_to_append == Oriented(polylines[to_append[1]].points, to_append[2])
              IN  /\ merged_points' = merged_points \o Tail(points_to_append)
                  /\ polylines' =
                         IF merged_points_owner = 0 THEN polylines
                         ELSE [polylines EXCEPT ![merged_points_owner].points =
                                   merged_points \o Tail(points_to_append)]
           /\ polylines_to_process' = polylines_to_process \ {to_append[1]}
    /\ UNCHANGED <<pc, pipeline_vars, extract_vars, generator_vars,
                   polylines_at_call,
                   merged_points_owner, merged_polyline>>

\* Lines 79-94, 100-105: merged_points.extend(...) changes the list in
\* place, and that list is the points list of the starting fragment when
\* find_starting_polyline returned it as it was.
merge_polylines_append ==
    /\ pc = "merge_loop"
    /\ polylines_to_process # {}
    /\ \E to_append \in find_closest_polyline(merged_points[Len(merged_points)],
                                              polylines, polylines_to_process) :
       \E to_prepend \in find_closest_polyline(merged_points[1],
                                               polylines, polylines_to_process) :
           /\ ~ (to_prepend[3] < to_append[3])
           /\ LET points_to_append == Oriented(polylines[to_append[1]].points, to_append[2])
              IN  /\ merged_points' = merged_points \o Tail(points_to_append)
                  /\ polylines' =
                         IF merged_points_owner = 0 THEN polylines
                         ELSE [polylines EXCEPT ![merged_points_owner].points =
                                   merged_points \o Tail(points_to_append)]
           /\ polylines_to_process' = polylines_to_process \ {to_append[1]}
    /\ UNCHANGED <<pc, pipeline_vars, extract_vars, generator_vars,
                   polylines_at_call,
                   merged_points_owner, merged_polyline>>

\* Lines 111-112.
merge_polylines_return ==
    /\ pc = "merge_loop"
    /\ polylines_to_process = {}
    /\ merged_polyline' = [id |-> "merged", points |-> merged_points]
    /\ pc' = "merge_done"
    /\ UNCHANGED <<pipeline_vars, extract_vars, generator_vars,
                   polylines, polylines_at_call,
                   polylines_to_process, merged_points, merged_points_owner>>

InitMerge ==
    /\ pc = "merge_call"
    /\ PipelineIdle
    /\ ExtractIdle
    /\ GeneratorIdle
    /\ polylines \in FragmentLists \cup GappedLists
    /\ polylines_at_call = polylines
    /\ polylines_to_process = {}
    /\ merged_points = <<>>
    /\ merged_points_owner = 0
    /\ merged_polyline = None

NextMerge ==
    \/ merge_polylines_empty
    \/ merge_polylines_call
    \/ merge_polylines_prepend
    \/ merge_polylines_append
    \/ merge_polylines_return

SpecMerge == InitMerge /\ [][NextMerge]_vars

\* The call runs on: a step that can be taken is taken.
SpecMergeLive == SpecMerge /\ WF_vars(NextMerge)

(***************************************************************************)
(* processing/normals.py, generate_infinite_normals_on_linestring_with_    *)
(* polyline, up to its call of remove_crossing_normals.  Lengths of the    *)
(* generator's lines are counted in steps of 1/Unit, so that a centre line *)
(* can have a length that is not a whole number; interval and the loop     *)
(* variable distance are whole numbers, as in range(0, int(L) + 1,         *)
(* interval).  The centre lines are horizontal, so the tangent is          *)
(* horizontal and the long normal of a station is the vertical line        *)
(* through its point.                                                      *)
(***************************************************************************)
Unit == 2

CenterLines ==
    {<< <<0, 0>>, <<12, 0>> >>,
     << <<0, 0>>, <<6, 0>>, <<13, 0>> >>,
     << <<0, 0>>, <<10, 0>>, <<5, 0>> >>}

Norths ==
    {<< <<0, 8>>, <<20, 8>> >>,
     << <<0, 8>>, <<8, 8>>, <<8, 12>>, <<20, 12>> >>,
     << <<6, 8>>, <<20, 8>> >>,
     << <<0, 6>>, <<20, 6>>, <<20, 10>>, <<0, 10>> >>,
     << <<0, 8>>, <<2, 8>>, <<2, 0>>, <<6, 0>>, <<6, 8>>, <<20, 8>> >>}

Souths ==
    {<< <<0, -8>>, <<20, -8>> >>,
     << <<0, -8>>, <<5, -8>> >>,
     << <<0, -8>>, <<12, -8>>, <<12, -4>>, <<20, -4>> >>}

Intervals == {2, 3}

\* Mutant: range(0, int(line_length), interval), without the + 1.
IntLength_exclusive(line) == Length(line) \div Unit - 1

\* Line 102: int(line_length).
IntLength(line) == Length(line) \div Unit

\* Lines 106-118: the station point and the tangent vector.
StationPoint(line, d) == Interpolate(line, d * Unit)

tangent_vector(line, d) ==
    LET point == StationPoint(line, d)
        prev_point == Interpolate(line, (d - 1) * Unit)
        next_point == Interpolate(line, (d + 1) * Unit)
    IN  IF d = 0 THEN <<next_point[1] - point[1], next_point[2] - point[2]>>
        ELSE IF d * Unit >= Length(line)
             THEN <<point[1] - prev_point[1], point[2] - prev_point[2]>>
             ELSE <<next_point[1] - prev_point[1], next_point[2] - prev_point[2]>>

\* Lines 121-126: the unit normal; it is turned round when the station
\* point lies on the north line (LineString.contains: not at its ends).
normal_vector(line, north_bank, d) ==
    LET t == tangent_vector(line, d)
        n == <<- Sgn(t[2]), Sgn(t[1])>>
        on_north == \E a \in 1..(Length(north_bank) - 1) :
                        Interpolate(north_bank, a) = StationPoint(line, d)
    IN  IF on_north THEN <<- n[1], - n[2]>> ELSE n

\* Lines 129-135: infinite_normal_line.intersection(bank), the long normal
\* being the line through point in the direction n: the points of the bank
\* on the line, and whether the bank runs along the line (the intersection
\* then has a LineString in it).
OnLongNormal(q, point, n) ==
    (q[1] - point[1]) * n[2] - (q[2] - point[2]) * n[1] = 0

IntersectionPoints(bank, point, n) ==
    {q \in {Interpolate(bank, a) : a \in 0..Length(bank)} : OnLongNormal(q, point, n)}

IntersectionIsLinear(bank, point, n) ==
    \E k \in 1..(Len(bank) - 1) :
        /\ bank[k] # bank[k + 1]
        /\ OnLongNormal(bank[k], point, n)
        /\ OnLongNormal(bank[k + 1], point, n)

\* Lines 154-155: min(points, key=distance to the station point); the
\* order of the points of a MultiPoint decides between equal distances.
NearestTo(points, point) ==
    {q \in points : \A r \in points : Dist2(q, point) <= Dist2(r, point)}

\* Mutant: only a station that meets neither boundary is discarded (line
\* 137); a boundary that is not met gives the station point as endpoint.
StationOutcomes_one_side(line, north_bank, south_bank, d) ==
    LET point == StationPoint(line, d)
        n == normal_vector(line, north_bank, d)
        north_points == IntersectionPoints(north_bank, point, n)
        south_points == IntersectionPoints(south_bank, point, n)
    IN  IF north_points = {} /\ south_points = {}
        THEN {[kind |-> "discard", transect |-> None]}
        ELSE IF IntersectionIsLinear(north_bank, point, n)
                    \/ IntersectionIsLinear(south_bank, point, n)
        THEN {[kind |-> "raise", transect |-> None]}
        ELSE {[kind |-> "transect", transect |-> <<point, <<north_point, south_point>> >>] :
                 north_point \in NearestTo(north_points \cup {point}, point),
                 south_point \in NearestTo(south_points \cup {point}, point)}

\* Mutant: the span runs from the side the normal vector points away from
\* to the side it points to, so a turned normal vector turns the span.
StationOutcomes_along_normal(line, north_bank, south_bank, d) ==
    LET point == StationPoint(line, d)
        n == normal_vector(line, north_bank, d)
        unturned == <<- Sgn(tangent_vector(line, d)[2]), Sgn(tangent_vector(line, d)[1])>>
        north_points == IntersectionPoints(north_bank, point, n)
        south_points == IntersectionPoints(south_bank, point, n)
    IN  IF north_points = {} \/ south_points = {}
        THEN {[kind |-> "discard", transect |-> None]}
        ELSE IF IntersectionIsLinear(north_bank, point, n)
                    \/ IntersectionIsLinear(south_bank, point, n)
        THEN {[kind |-> "raise", transect |-> None]}
        ELSE {[kind |-> "transect",
               transect |-> <<point, IF n = unturned THEN <<north_point, south_point>>
                                     ELSE <<south_point, north_point>> >>] :
                 north_point \in NearestTo(north_points, point),
                 south_point \in NearestTo(south_points, point)}

\* Lines 106-165: what the body of the loop does for station d.  A
\* LineString among the intersections is not a Point: it is taken as
\* north_point or south_point and LineString([north_point, south_point])
\* raises.
StationOutcomes(line, north_bank, south_bank, d) ==
    LET point == StationPoint(line, d)
        n == normal_vector(line, north_bank, d)
        north_points == IntersectionPoints(north_bank, point, n)
        south_points == IntersectionPoints(south_bank, point, n)
    IN  IF north_points = {} \/ south_points = {}
        THEN {[kind |-> "discard", transect |-> None]}
        ELSE IF IntersectionIsLinear(north_bank, point, n)
                    \/ IntersectionIsLinear(south_bank, point, n)
        THEN {[kind |-> "raise", transect |-> None]}
        ELSE {[kind |-> "transect", transect |-> <<point, <<north_point, south_point>> >>] :
                 north_point \in NearestTo(north_points, point),
                 south_point \in NearestTo(south_points, point)}

\* Lines 104-159: a station that gives a transect.
generate_normals_station_transect ==
    /\ pc = "normals_loop"
    /\ distance <= IntLength(center_line)
    /\ \E outcome \in StationOutcomes(center_line, north, south, distance) :
           /\ outcome.kind = "transect"
           /\ points_with_normals' = Append(points_with_normals, outcome.transect)
    /\ visited' = Append(visited, distance)
    /\ distance' = distance + interval
    /\ UNCHANGED <<pc, alive, crossings, intersecting_pairs, total_crossings, iterations,
                   normals, meters, closed_shapes, shape_i, ditch_vars, extract_vars,
                   merge_vars, center_line, north, south, interval>>

\* Lines 137-138, 160-161: a boundary is not met; continue.
generate_normals_station_discard ==
    /\ pc = "normals_loop"
    /\ distance <= IntLength(center_line)
    /\ \E outcome \in StationOutcomes(center_line, north, south, distance) :
           outcome.kind = "discard"
    /\ visited' = Append(visited, distance)
    /\ distance' = distance + interval
    /\ UNCHANGED <<pc, pipeline_vars, extract_vars, merge_vars, center_line, north, south,
                   interval>>

\* Mutant: the exception ends the loop.
generate_normals_station_raise_abort ==
    /\ pc = "normals_loop"
    /\ distance <= IntLength(center_line)
    /\ \E outcome \in StationOutcomes(center_line, north, south, distance) :
           outcome.kind = "raise"
    /\ visited' = Append(visited, distance)
    /\ distance' = IntLength(center_line) + 1
    /\ UNCHANGED <<pc, pipeline_vars, extract_vars, merge_vars, center_line, north, south,
                   interval>>

\* Lines 163-165: except Exception: continue.
generate_normals_station_raise ==
    /\ pc = "normals_loop"
    /\ distance <= IntLength(center_line)
    /\ \E outcome \in StationOutcomes(center_line, north, south, distance) :
           outcome.kind = "raise"
    /\ visited' = Append(visited, distance)
    /\ distance' = distance + interval
    /\ UNCHANGED <<pc, pipeline_vars, extract_vars, merge_vars, center_line, north, south,
                   interval>>

\* Lines 167-168: the range is exhausted; remove_crossing_normals is called.
generate_normals_resolve ==
    /\ pc = "normals_loop"
    /\ distance > IntLength(center_line)
    /\ pc' = "remove_count"
    /\ UNCHANGED <<pipeline_vars, unit_vars>>

InitGenerator ==
    /\ pc = "normals_loop"
    /\ PipelineIdle
    /\ ExtractIdle
    /\ MergeIdle
    /\ center_line \in CenterLines
    /\ north \in Norths
    /\ south \in Souths
    /\ interval \in Intervals
    /\ distance = 0
    /\ visited = <<>>

NextGenerator ==
    \/ generate_normals_station_transect
    \/ generate_normals_station_discard
    \/ generate_normals_station_raise
    \/ generate_normals_resolve
    \/ remove_crossing_normals_count
    \/ remove_crossing_normals_loop
    \/ remove_crossing_normals_return

SpecGenerator == InitGenerator /\ [][NextGenerator]_vars

(***************************************************************************)
(* Vocabulary of the properties: stated from the geometry, not from the    *)
(* operations above.                                                       *)
(***************************************************************************)
\* The points the locator is asked about: every feature endpoint and the
\* centroid of every cell.
Probes ==
    {Rat(d.points[1]) : d \in Ditches}
        \cup {Rat(d.points[Len(d.points)]) : d \in Ditches}
        \cup {polygon_centroid(closed_shapes[k].polygon) : k \in 1..Len(closed_shapes)}

CellsContaining(P) ==
    {k \in 1..Len(closed_shapes) : polygon_contains(closed_shapes[k].polygon, P)}

Located(point) == CellsContaining(Rat(point)) # {}

OwnCell(point) ==
    closed_shapes[CHOOSE k \in CellsContaining(Rat(point)) :
                      \A j \in CellsContaining(Rat(point)) : k <= j]

Resolved(d) == Located(d.points[1]) /\ Located(d.points[Len(d.points)])

\* The resolved features among the first n of the batch, in order.
RECURSIVE ResolvedPrefix(_)
ResolvedPrefix(n) ==
    IF n = 0 THEN <<>>
    ELSE IF Resolved(ditchs[n]) THEN Append(ResolvedPrefix(n - 1), ditchs[n])
         ELSE ResolvedPrefix(n - 1)

\* The points of a curve nearest to p, and the arc positions of a point on a curve.
NearestPoints(curve, p) ==
    {Interpolate(curve, a) : a \in
        {a \in 0..Length(curve) : \A b \in 0..Length(curve) :
            Dist2(Interpolate(curve, a), p) <= Dist2(Interpolate(curve, b), p)}}

ArcsOf(curve, point) == {a \in 0..Length(curve) : Interpolate(curve, a) = point}

\* The arc length of the whole boundary between the projections of the two
\* endpoints of d, each onto the given tangent line of its own cell.
LengthsBetween(boundary, tangent_start, tangent_end, d) ==
    {Abs(a - b) :
        a \in UNION {ArcsOf(boundary, q) : q \in NearestPoints(tangent_start, d.points[1])},
        b \in UNION {ArcsOf(boundary, q) :
                        q \in NearestPoints(tangent_end, d.points[Len(d.points)])}}

ExpectedLengthsA(d) ==
    LengthsBetween(north_line, OwnCell(d.points[1]).tangent_line_1,
                   OwnCell(d.points[Len(d.points)]).tangent_line_1, d)

ExpectedLengthsB(d) ==
    LengthsBetween(south_line, OwnCell(d.points[1]).tangent_line_2,
                   OwnCell(d.points[Len(d.points)]).tangent_line_2, d)

\* The sub-range of boundary A a cell's tangent_line_1 covers: the arc
\* positions of its first and last point.
RangeA(shape) ==
    <<Project(north_line, shape.tangent_line_1[1]),
      Project(north_line, shape.tangent_line_1[Len(shape.tangent_line_1)])>>

LoA(shape) == Min(RangeA(shape)[1], RangeA(shape)[2])

HiA(shape) == Max(RangeA(shape)[1], RangeA(shape)[2])

InDitchPhase == pc \in {"ditch_loop", "done"}

(***************************************************************************)
(* C1: when remove_crossing_normals returns, no two transects of the       *)
(* returned list have spans that intersect each other.                     *)
(***************************************************************************)
C1_NonCrossing ==
    pc = "remove_done" =>
        \A i \in 1..Len(normals) : \A j \in 1..Len(normals) :
            i # j => ~ intersects(normals[i][2], normals[j][2])

\* A run in which input spans crossed, transects were removed, and at least
\* two transects were returned.
C1_Witness ==
    /\ pc = "remove_done"
    /\ iterations > 0
    /\ Len(normals) >= 2

(***************************************************************************)
(* C2: for a positive maxLength, both tangent lines of every emitted cell  *)
(* have length <= maxLength.                                               *)
(***************************************************************************)
C2_CellLengthBound ==
    \A k \in 1..Len(closed_shapes) :
        /\ meters > 0
        /\ Length(closed_shapes[k].tangent_line_1) <= meters
        /\ Length(closed_shapes[k].tangent_line_2) <= meters

\* A finished mesh in which a pair was split because only its lower
\* boundary sub-curve was too long.
C2_Witness ==
    /\ pc = "shapes_done"
    /\ Len(closed_shapes) > Len(normals) - 1
    /\ \E k \in 1..Len(closed_shapes) :
           2 * Length(closed_shapes[k].tangent_line_1) <= meters

(***************************************************************************)
(* C3: for any list of transects passed to build, the tangent_line_1       *)
(* sub-ranges of the cells tile the interval of boundary A spanned by the  *)
(* transects: consecutive cells meet at a single arc position, no two      *)
(* cells overlap, and nothing of the spanned interval is left out.         *)
(***************************************************************************)
C3_TilesBoundaryA ==
    (pc = "shapes_done" /\ Len(closed_shapes) >= 1) =>
        /\ \A k \in 1..(Len(closed_shapes) - 1) :
               RangeA(closed_shapes[k])[2] = RangeA(closed_shapes[k + 1])[1]
        /\ \A k \in 1..Len(closed_shapes) : \A l \in 1..Len(closed_shapes) :
               k # l => \/ HiA(closed_shapes[k]) <= LoA(closed_shapes[l])
                        \/ HiA(closed_shapes[l]) <= LoA(closed_shapes[k])
        /\ \A n \in 1..Len(normals) : \E k \in 1..Len(closed_shapes) :
               /\ LoA(closed_shapes[k]) <= Project(north_line, normals[n][2][1])
               /\ Project(north_line, normals[n][2][1]) <= HiA(closed_shapes[k])

(***************************************************************************)
(* C4: in a mesh built from the resolver's transects no point is contained *)
(* in the polygons of two cells.                                           *)
(***************************************************************************)
C4_CellsDoNotOverlap ==
    pc = "shapes_done" => \A P \in Probes : Cardinality(CellsContaining(P)) <= 1

(***************************************************************************)
(* C5: the projector yields one result record per input feature; a feature *)
(* with an endpoint in no cell is not dropped.                             *)
(***************************************************************************)
C5_OneRecordPerFeature ==
    pc = "done" => Len(csv_rows) - 1 = Len(ditchs)

(***************************************************************************)
(* C6: a feature with an endpoint in no cell stops being processed without *)
(* ending the batch, and the features after it are processed as if it had  *)
(* been absent: what has been written is what the resolved features alone  *)
(* give, in order.                                                         *)
(***************************************************************************)
C6_UnresolvedIsSkipped ==
    InDitchPhase =>
        LET done_so_far == ResolvedPrefix(ditch_k - 1)
        IN  /\ Len(csv_rows) = 1 + Len(done_so_far)
            /\ \A j \in 1..Len(done_so_far) :
                   /\ csv_rows[j + 1][4] = done_so_far[j].attributes.CODE
                   /\ csv_rows[j + 1][5] = Fmt2(Length(done_so_far[j].points))
                   /\ csv_rows[j + 1][6] \in
                          {Fmt2(v) : v \in ExpectedLengthsA(done_so_far[j])}
            /\ pc = "done" => ditch_k = Len(ditchs) + 1

\* A finished batch in which a feature with an endpoint in no cell was
\* followed by a resolved feature, whose row is the only one written.
C6_Witness ==
    /\ pc = "done"
    /\ Len(ditchs) = 2
    /\ ~ Resolved(ditchs[1])
    /\ Resolved(ditchs[2])
    /\ Len(csv_rows) = 2

(***************************************************************************)
(* C7: for a feature with both endpoints located, lengthA is the arc       *)
(* length of the whole boundary A between the projections of its endpoints *)
(* onto the tangent_line_1 of their own cells; it is not negative.         *)
(***************************************************************************)
C7_LengthA ==
    [][process_ditch_resolved =>
          /\ dam_length' \in ExpectedLengthsA(ditchs[ditch_k])
          /\ dam_length' >= 0
          /\ csv_rows'[Len(csv_rows')][6] = Fmt2(dam_length')]_vars

\* A feature whose endpoints lie in different cells was measured, and its
\* lengthA is longer than the tangent line of either cell.
C7_Witness ==
    /\ InDitchPhase
    /\ ditch_k > 1
    /\ Len(csv_rows) > 1
    /\ Resolved(ditchs[ditch_k - 1])
    /\ LET d == ditchs[ditch_k - 1]
           s == OwnCell(d.points[1])
           e == OwnCell(d.points[Len(d.points)])
       IN  /\ s # e
           /\ dam_length > Length(s.tangent_line_1)
           /\ dam_length > Length(e.tangent_line_1)
           /\ csv_rows[Len(csv_rows)][6] = Fmt2(dam_length)

(***************************************************************************)
(* C8: for every resolved feature the projector also produces lengthB, the *)
(* arc length of the whole boundary B between the projections of its       *)
(* endpoints onto the tangent_line_2 of their cells.                       *)
(***************************************************************************)
C8_LengthBProduced ==
    \A k \in 1..Len(all_geometries_for_shp) :
        LET rec == all_geometries_for_shp[k]
            d == CHOOSE x \in Ditches : x.attributes.CODE = rec.base.CODE
        IN  \E f \in DOMAIN rec.base \ {"CODE", "RIVERPART", "ditch_len", "dam_len",
                                        "manual_len"} :
                rec.base[f] \in ExpectedLengthsB(d)

(***************************************************************************)
(* C9: find_point returns None for a point that lies in no cell, and a     *)
(* pair (index, cell) only when that cell's polygon contains the point.    *)
(***************************************************************************)
C9_FindPoint ==
    pc = "shapes_done" =>
        \A P \in Probes :
            LET r == find_point(closed_shapes, P)
            IN  /\ CellsContaining(P) = {} => r = None
                /\ r # None =>
                       /\ r[1] \in CellsContaining(P)
                       /\ r[2] = closed_shapes[r[1]]

\* A mesh with a point that is in a cell's bounding box but in no cell, and
\* a point that is in a cell.
C9_Witness ==
    /\ pc = "shapes_done"
    /\ \E P \in Probes :
           /\ candidate_indices(closed_shapes, P) # {}
           /\ find_point(closed_shapes, P) = None
    /\ \E P \in Probes : find_point(closed_shapes, P) # None

(***************************************************************************)
(* C10: for every cell of a built mesh, locating the cell's own centroid   *)
(* returns that same cell.                                                 *)
(***************************************************************************)
C10_CentroidLocatesOwnCell ==
    pc = "shapes_done" =>
        \A k \in 1..Len(closed_shapes) :
            find_point(closed_shapes, polygon_centroid(closed_shapes[k].polygon))
                = <<k, closed_shapes[k]>>

OnCurve(curve, point) == \E a \in 0..Length(curve) : Interpolate(curve, a) = point

(***************************************************************************)
(* C11 (as stated): extract(curve, p1, p2) and extract(curve, p2, p1)      *)
(* return the same curve, running in the direction of the curve from       *)
(* min(d1, d2) to max(d1, d2).                                             *)
(***************************************************************************)
C11_ExtractSymmetric ==
    pc = "extract_done" =>
        /\ subcurve = subcurve_swapped
        /\ subcurve[1] = Interpolate(sub_line,
               Min(Project(sub_line, sub_point1), Project(sub_line, sub_point2)))
        /\ subcurve[Len(subcurve)] = Interpolate(sub_line,
               Max(Project(sub_line, sub_point1), Project(sub_line, sub_point2)))

(***************************************************************************)
(* C11 (amended): extract(curve, p1, p2) runs from the projection of p1 to *)
(* the projection of p2, its length is |d1 - d2|, and                      *)
(* extract(curve, p2, p1) is the same coordinates in reverse order.        *)
(***************************************************************************)
C11_ExtractDirected ==
    pc = "extract_done" =>
        /\ subcurve = Reverse(subcurve_swapped)
        /\ subcurve[1] = Interpolate(sub_line, Project(sub_line, sub_point1))
        /\ subcurve[Len(subcurve)] = Interpolate(sub_line, Project(sub_line, sub_point2))
        /\ Length(subcurve)
               = Abs(Project(sub_line, sub_point1) - Project(sub_line, sub_point2))

\* Both orders were extracted for a pair with d1 > d2 whose sub-curve
\* passes a vertex of the line.
C11_Witness ==
    /\ pc = "extract_done"
    /\ Project(sub_line, sub_point1) > Project(sub_line, sub_point2)
    /\ Len(subcurve) >= 3
    /\ subcurve # subcurve_swapped

(***************************************************************************)
(* C12: for a point p lying on the curve, extract(curve, p, p) has length  *)
(* zero.                                                                   *)
(***************************************************************************)
C12_ExtractSamePoint ==
    (pc \in {"extract_swapped", "extract_done"}
        /\ sub_point1 = sub_point2 /\ OnCurve(sub_line, sub_point1)) =>
            Length(subcurve) = 0

\* The extraction was made for a point in the interior of the curve.
C12_Witness ==
    /\ pc = "extract_done"
    /\ sub_point1 = sub_point2
    /\ OnCurve(sub_line, sub_point1)
    /\ Project(sub_line, sub_point1) > 0
    /\ Project(sub_line, sub_point1) < Length(sub_line)
    /\ Len(subcurve) = 1

\* The fragments frs are the pieces of path, each once, either way round.
IsCutInto(path, frs) ==
    \E cuts \in SUBSET (2..(Len(path) - 1)) :
        /\ Cardinality(Pieces(path, cuts)) = Len(frs)
        /\ \A piece \in Pieces(path, cuts) :
               \E i \in 1..Len(frs) : frs[i].points \in {piece, Reverse(piece)}

RECURSIVE SumOfLengths(_, _)
SumOfLengths(frs, n) ==
    IF n = 0 THEN 0 ELSE SumOfLengths(frs, n - 1) + Length(frs[n].points)

(***************************************************************************)
(* C13: for fragments that form a single simple path, given in any order   *)
(* and orientation, merge_polylines returns a curve whose length is the    *)
(* sum of the lengths of the fragments and whose point sequence is the     *)
(* path or its reverse.                                                    *)
(***************************************************************************)
C13_MergeStitches ==
    \A path \in Paths :
        (pc = "merge_done" /\ IsCutInto(path, polylines_at_call)) =>
            /\ Length(merged_polyline.points)
                   = SumOfLengths(polylines_at_call, Len(polylines_at_call))
            /\ merged_polyline.points \in {path, Reverse(path)}

\* Three fragments were merged, the first of the list being the middle
\* piece of the path and stored against the direction of the result.
C13_Witness ==
    /\ pc = "merge_done"
    /\ Len(polylines_at_call) = 3
    /\ LET first == polylines_at_call[1].points
           result == merged_polyline.points
       IN  /\ EndPoints(polylines_at_call[1]) \cap {result[1], result[Len(result)]} = {}
           /\ \E k \in 2..(Len(result) - 1) :
                  result[k] = first[Len(first)] /\ result[k + 1] = first[Len(first) - 1]

(***************************************************************************)
(* C14: merge_polylines does not change its input fragments: the point     *)
(* sequence of every fragment stays what it was at the call.               *)
(***************************************************************************)
C14_InputsNotMutated ==
    pc \in {"merge_loop", "merge_done"} =>
        \A i \in 1..Len(polylines_at_call) :
            polylines[i].points = polylines_at_call[i].points

NoCrossings(transects) ==
    \A i \in 1..Len(transects) : \A j \in 1..Len(transects) :
        i # j => ~ intersects(transects[i][2], transects[j][2])

(***************************************************************************)
(* C15: if no two spans of the input intersect, remove_crossing_normals    *)
(* returns all the input transects, unchanged and in the same order.       *)
(***************************************************************************)
C15_NonCrossingUnchanged ==
    (pc = "remove_done" /\ NoCrossings(points_with_normals)) =>
        normals = points_with_normals

\* The resolver returned for an input of three transects without crossings.
C15_Witness ==
    /\ pc = "remove_done"
    /\ Len(points_with_normals) = 3
    /\ NoCrossings(points_with_normals)
    /\ iterations = 0

\* The longer of the two boundary sub-curves between two transects.
LongerSpan(current, next) ==
    Max(Abs(Project(north_line, current[2][1]) - Project(north_line, next[2][1])),
        Abs(Project(south_line, current[2][2]) - Project(south_line, next[2][2])))

(***************************************************************************)
(* C16: a consecutive pair whose two boundary sub-curves are both <=       *)
(* maxLength gives exactly one cell, and a pair whose longer sub-curve is  *)
(* > maxLength and <= 2 * maxLength gives exactly 2 cells; n >= 1          *)
(* transects without an oversized pair give n - 1 cells.                   *)
(***************************************************************************)
C16_CellCount ==
    [][generate_closed_shapes_loop =>
          LET longer == LongerSpan(normals[shape_i], normals[shape_i + 1])
              added == Len(closed_shapes') - Len(closed_shapes)
          IN  /\ longer <= meters => added = 1
              /\ (meters < longer /\ longer <= 2 * meters) => added = 2
              /\ (\A i \in 1..shape_i :
                      LongerSpan(normals[i], normals[i + 1]) <= meters)
                     => Len(closed_shapes') = shape_i' - 1]_vars

\* A mesh of three transects in which each of the two pairs was split into
\* exactly two cells.
C16_Witness ==
    /\ pc = "shapes_done"
    /\ Len(normals) = 3
    /\ \A i \in 1..2 : /\ meters < LongerSpan(normals[i], normals[i + 1])
                       /\ LongerSpan(normals[i], normals[i + 1]) <= 2 * meters
    /\ Len(closed_shapes) = 4

(***************************************************************************)
(* C17: the cell list is a chain in the order of the input transects: the  *)
(* cells of pair (i, i+1) come before the cells of pair (i+1, i+2), and    *)
(* for every two consecutive cells work_line_2 of the earlier one is       *)
(* work_line_1 of the later one, across recursive splits too.              *)
(***************************************************************************)
C17_CellChain ==
    (pc \in {"shapes_loop", "shapes_done"} /\ closed_shapes # <<>>) =>
        /\ \A k \in 1..(Len(closed_shapes) - 1) :
               closed_shapes[k].work_line_2 = closed_shapes[k + 1].work_line_1
        /\ \E first \in [1..shape_i -> 1..(Len(closed_shapes) + 1)] :
               /\ first[1] = 1
               /\ first[shape_i] = Len(closed_shapes) + 1
               /\ \A i \in 1..(shape_i - 1) :
                      /\ first[i] < first[i + 1]
                      /\ closed_shapes[first[i]].work_line_1 = normals[i][2]
                      /\ closed_shapes[first[i + 1] - 1].work_line_2 = normals[i + 1][2]

\* A finished mesh of two pairs, each split into several cells.
C17_Witness ==
    /\ pc = "shapes_done"
    /\ Len(normals) = 3
    /\ Len(closed_shapes) >= 4
    /\ closed_shapes[2].work_line_1 \notin {normals[i][2] : i \in 1..3}

\* The generator has left its loop.
GeneratorLoopDone == center_line # <<>> /\ pc # "normals_loop"

\* The stations k * interval with k * interval <= L, in ascending order.
ExpectedStations ==
    [k \in 1..Cardinality({j \in 0..Length(center_line) :
                              j * interval * Unit <= Length(center_line)})
        |-> (k - 1) * interval]

\* The long normal of a station on a horizontal centre line meets the bank.
MeetsBank(bank, point) ==
    \E a \in 0..Length(bank) : Interpolate(bank, a)[1] = point[1]

Emitted == {points_with_normals[i] : i \in 1..Len(points_with_normals)}
               \cup {normals[i] : i \in 1..Len(normals)}

(***************************************************************************)
(* C18: a station whose long normal does not meet boundary A or does not   *)
(* meet boundary B contributes no transect, and every emitted transect has *)
(* one endpoint on boundary A and the other on boundary B.                 *)
(***************************************************************************)
C18_MissedBoundaryDiscards ==
    center_line # <<>> =>
        /\ \A i \in 1..Len(visited) :
               (~ MeetsBank(north, StationPoint(center_line, visited[i]))
                    \/ ~ MeetsBank(south, StationPoint(center_line, visited[i])))
                   => \A t \in Emitted : t[1] # StationPoint(center_line, visited[i])
        /\ \A t \in Emitted : OnCurve(north, t[2][1]) /\ OnCurve(south, t[2][2])

\* The loop is over; a station met the north line only and gave nothing,
\* another station gave a transect.
C18_Witness ==
    /\ GeneratorLoopDone
    /\ pc = "remove_done"
    /\ normals # <<>>
    /\ \E i \in 1..Len(visited) :
           /\ MeetsBank(north, StationPoint(center_line, visited[i]))
           /\ ~ MeetsBank(south, StationPoint(center_line, visited[i]))

\* The stations among the first n expected ones that give a transect.
RECURSIVE TransectStations(_)
TransectStations(n) ==
    IF n = 0 THEN <<>>
    ELSE IF \E o \in StationOutcomes(center_line, north, south, ExpectedStations[n]) :
                o.kind = "transect"
         THEN Append(TransectStations(n - 1), ExpectedStations[n])
         ELSE TransectStations(n - 1)

Raises(d) ==
    \E o \in StationOutcomes(center_line, north, south, d) : o.kind = "raise"

(***************************************************************************)
(* C19: a station whose geometry computation raises is skipped and the     *)
(* loop goes on: when the loop ends every station has been visited and the *)
(* transects collected are those of the other stations, in order, as if    *)
(* the failing station had not been there.                                 *)
(***************************************************************************)
C19_RaisingStationSkipped ==
    (GeneratorLoopDone /\ pc = "remove_count") =>
        LET good == TransectStations(Len(ExpectedStations))
        IN  /\ Len(visited) = Len(ExpectedStations)
            /\ Len(points_with_normals) = Len(good)
            /\ \A i \in 1..Len(good) :
                   points_with_normals[i] \in
                       {o.transect : o \in StationOutcomes(center_line, north, south, good[i])}

\* The loop is over; a station raised and a later station gave a transect.
C19_Witness ==
    /\ GeneratorLoopDone
    /\ pc = "remove_count"
    /\ \E i \in 1..Len(visited) :
           /\ Raises(visited[i])
           /\ \E j \in (i + 1)..Len(visited) :
                  \E k \in 1..Len(points_with_normals) :
                      points_with_normals[k][1] = StationPoint(center_line, visited[j])
           /\ \E j \in 1..(i - 1) :
                  \E k \in 1..Len(points_with_normals) :
                      points_with_normals[k][1] = StationPoint(center_line, visited[j])

(***************************************************************************)
(* C20: for a centre line of length L and a positive integer interval the  *)
(* generator visits the stations k * interval, k >= 0, k * interval <= L,  *)
(* in ascending order, and no others.                                      *)
(***************************************************************************)
C20_Stations ==
    /\ (center_line # <<>> /\ pc = "normals_loop") =>
           visited = SubSeq(ExpectedStations, 1, Len(visited))
    /\ GeneratorLoopDone => visited = ExpectedStations

\* The loop is over and the last of at least three stations is at the very
\* end of the centre line.
C20_Witness ==
    /\ GeneratorLoopDone
    /\ Len(visited) >= 3
    /\ visited[Len(visited)] * Unit = Length(center_line)

\* The mesh the builder returns for a transect list: the cells of the pairs
\* (1, 2), .., (n - 1, n), in that order.
RECURSIVE MeshOf(_, _, _)
MeshOf(transects, m, n) ==
    IF n <= 1 THEN <<>>
    ELSE MeshOf(transects, m, n - 1) \o ShapesOfPair(transects[n - 1], transects[n], m)

\* What a resolved feature gives when it is the only feature of the batch:
\* its row and its shapefile records, from the feature, the mesh and
\* boundary A alone.
AloneProjections(d) ==
    <<ProjectOnTangent1(OwnCell(d.points[1]), d.points[1]),
      ProjectOnTangent1(OwnCell(d.points[Len(d.points)]), d.points[Len(d.points)])>>

AloneRow(d) ==
    CsvRow(d, DamLength(AloneProjections(d)[1], AloneProjections(d)[2]))

AloneRecords(d) ==
    ShpRecords(d, DamLength(AloneProjections(d)[1], AloneProjections(d)[2]),
               AloneProjections(d)[1], AloneProjections(d)[2])

RECURSIVE AloneRecordsOf(_, _)
AloneRecordsOf(features, n) ==
    IF n = 0 THEN <<>>
    ELSE AloneRecordsOf(features, n - 1) \o AloneRecords(features[n])

(***************************************************************************)
(* C21: once the mesh is built, what the projector writes for a feature    *)
(* depends on that feature, the mesh and the boundary curves only: in      *)
(* every batch, whatever the order and the neighbours of the features, the *)
(* row and the records of each resolved feature are the ones it gives when *)
(* processed alone; and the cells stay what the builder returned, no       *)
(* lookup or projection changes them.                                      *)
(***************************************************************************)
C21_FeaturesIndependent ==
    InDitchPhase =>
        LET done_so_far == ResolvedPrefix(ditch_k - 1)
        IN  /\ closed_shapes = MeshOf(normals, meters, Len(normals))
            /\ csv_rows =
                   <<CsvHeader>> \o [j \in 1..Len(done_so_far) |-> AloneRow(done_so_far[j])]
            /\ all_geometries_for_shp = AloneRecordsOf(done_so_far, Len(done_so_far))

\* A finished batch of two different resolved features whose lengths on
\* boundary A differ, the second one's start projecting elsewhere than the
\* first one's.
C21_Witness ==
    /\ pc = "done"
    /\ Len(ditchs) = 2
    /\ Resolved(ditchs[1]) /\ Resolved(ditchs[2])
    /\ AloneProjections(ditchs[1])[1] # AloneProjections(ditchs[2])[1]
    /\ AloneRow(ditchs[1])[6] # AloneRow(ditchs[2])[6]
    /\ Len(csv_rows) = 3
    /\ csv_rows[3] = AloneRow(ditchs[2])


\* The number of the transects remaining under the flags al that the span of
\* transect i intersects, counted from the spans themselves.
CurrentCount(al, i) ==
    Cardinality({j \in 1..Len(points_with_normals) :
                    /\ j # i
                    /\ al[j]
                    /\ intersects(points_with_normals[i][2], points_with_normals[j][2])})

Remaining(al) == {i \in 1..Len(points_with_normals) : al[i]}

(***************************************************************************)
(* C22: every iteration of the resolver loop removes exactly one           *)
(* transect, one whose current crossing count is the highest among the     *)
(* remaining transects and positive, the smallest index among ties; the    *)
(* count kept for every remaining transect that crossed it goes down by    *)
(* one and no other count changes; and the loop is left only when every    *)
(* remaining transect has count 0.                                         *)
(***************************************************************************)
C22_GreedyRemoval ==
    [][/\ remove_crossing_normals_loop =>
              LET removed == Remaining(alive) \ Remaining(alive')
              IN  /\ Cardinality(removed) = 1
                  /\ Remaining(alive') \subseteq Remaining(alive)
                  /\ \A r \in removed :
                         /\ CurrentCount(alive, r) > 0
                         /\ \A j \in Remaining(alive) :
                                /\ CurrentCount(alive, j) <= CurrentCount(alive, r)
                                /\ CurrentCount(alive, j) = CurrentCount(alive, r) => r <= j
                                /\ crossings[j] = CurrentCount(alive, j)
                         /\ \A m \in Remaining(alive') :
                                /\ crossings'[m] = CurrentCount(alive', m)
                                /\ crossings'[m] =
                                       IF intersects(points_with_normals[m][2],
                                                     points_with_normals[r][2])
                                       THEN crossings[m] - 1
                                       ELSE crossings[m]
       /\ remove_crossing_normals_return =>
              \A j \in Remaining(alive) : CurrentCount(alive, j) = 0]_vars

\* After the first iteration: transect 1 was removed although a later
\* transect had the same, highest, count, and a remaining transect that
\* crossed it still crosses another one.
C22_Witness ==
    /\ pc = "remove_loop"
    /\ iterations = 1
    /\ ~ alive[1]
    /\ \E j \in Remaining(alive) :
           Cardinality(InitialIntersecting(points_with_normals, j))
               = Cardinality(InitialIntersecting(points_with_normals, 1))
    /\ \E m \in Remaining(alive) :
           /\ intersects(points_with_normals[m][2], points_with_normals[1][2])
           /\ crossings[m] > 0


\* The least k with len / 2^k <= m, for m > 0.
RECURSIVE LeastK(_, _)
LeastK(len, m) == IF len <= m THEN 0 ELSE 1 + LeastK(len, 2 * m)

RECURSIVE Pow2(_)
Pow2(k) == IF k = 0 THEN 1 ELSE 2 * Pow2(k - 1)

\* The arc lengths of the two boundary sub-curves between two transects.
UpperSpan(current, next) ==
    Abs(Project(north_line, current[2][1]) - Project(north_line, next[2][1]))

LowerSpan(current, next) ==
    Abs(Project(south_line, current[2][2]) - Project(south_line, next[2][2]))

(***************************************************************************)
(* C23: for a positive maxLength split_shape_if_needed terminates, every   *)
(* recursive call receiving sub-curves of exactly half the arc length of   *)
(* its parent's: with k the least number such that the longer of the two   *)
(* sub-curves divided by 2^k is <= maxLength, a pair gives 2^k cells, and  *)
(* the tangent lines of each of them have the lengths of the pair's two    *)
(* sub-curves divided by 2^k.                                              *)
(***************************************************************************)
C23_SplitHalves ==
    [][generate_closed_shapes_loop =>
          LET current == normals[shape_i]
              next == normals[shape_i + 1]
              k == LeastK(Max(UpperSpan(current, next), LowerSpan(current, next)), meters)
              added == SubSeq(closed_shapes', Len(closed_shapes) + 1, Len(closed_shapes'))
          IN  /\ meters > 0
              /\ Len(added) = Pow2(k)
              /\ \A c \in 1..Len(added) :
                     /\ Pow2(k) * Length(added[c].tangent_line_1) = UpperSpan(current, next)
                     /\ Pow2(k) * Length(added[c].tangent_line_2) = LowerSpan(current, next)]_vars

\* A finished mesh in which a pair with sub-curves of different lengths was
\* split to depth 2: four cells, each with a quarter of either sub-curve.
C23_Witness ==
    /\ pc = "shapes_done"
    /\ Len(normals) = 2
    /\ UpperSpan(normals[1], normals[2]) # LowerSpan(normals[1], normals[2])
    /\ LeastK(LongerSpan(normals[1], normals[2]), meters) = 2
    /\ Len(closed_shapes) = 4
    /\ 4 * Length(closed_shapes[3].tangent_line_1) = UpperSpan(normals[1], normals[2])


\* merge_polylines has spliced a fragment onto the merged curve.
MergeSplice == merge_polylines_prepend \/ merge_polylines_append

\* The smallest squared distance between an end of the merged curve and an
\* endpoint of a remaining fragment.
NearestGap ==
    LET gaps == {Dist2(e, q) : e \in {merged_points[1], merged_points[Len(merged_points)]},
                               q \in UNION {EndPoints(polylines[j]) : j \in polylines_to_process}}
    IN  CHOOSE g \in gaps : \A h \in gaps : g <= h

\* The points of a fragment read from its endpoint q.
ReadFrom(fragment, q) ==
    IF fragment.points[1] = q THEN fragment.points ELSE Reverse(fragment.points)

(***************************************************************************)
(* C24: at every step of merge_polylines exactly one remaining fragment is *)
(* spliced on, and one of its endpoints is at the smallest distance there  *)
(* is between an endpoint of a remaining fragment and the head or the tail *)
(* of the merged curve; the fragment is attached to the end that realises  *)
(* that distance, turned so that this endpoint is on the side of the       *)
(* merged curve (the endpoint itself being the shared point left out).     *)
(***************************************************************************)
C24_NearestIsSpliced ==
    [][MergeSplice =>
          LET spliced == polylines_to_process \ polylines_to_process'
          IN  /\ Cardinality(spliced) = 1
              /\ polylines_to_process' \subseteq polylines_to_process
              /\ \A i \in spliced :
                     \E q \in EndPoints(polylines[i]) :
                         \/ /\ Dist2(merged_points[Len(merged_points)], q) = NearestGap
                            /\ merged_points' =
                                   merged_points \o Tail(ReadFrom(polylines[i], q))
                         \/ /\ Dist2(merged_points[1], q) = NearestGap
                            /\ merged_points' =
                                   Reverse(Tail(ReadFrom(polylines[i], q))) \o merged_points]_vars

\* One fragment has been spliced onto the starting fragment, and the one
\* that remains touches neither end of the merged curve and is nearer to
\* its head than to its tail.
C24_Witness ==
    /\ pc = "merge_loop"
    /\ Len(polylines) = 3
    /\ Cardinality(polylines_to_process) = 1
    /\ NearestGap > 0
    /\ \A i \in polylines_to_process :
           EndDist2(merged_points[1], polylines[i])
               < EndDist2(merged_points[Len(merged_points)], polylines[i])


\* The scan of the whole cell list in index order, without any index: the
\* first cell whose polygon contains P.
RECURSIVE ScanFrom(_, _, _)
ScanFrom(shapes, P, i) ==
    IF i > Len(shapes) THEN None
    ELSE IF polygon_contains(shapes[i].polygon, P) THEN <<i, shapes[i]>>
         ELSE ScanFrom(shapes, P, i + 1)

(***************************************************************************)
(* C25: for every point asked about and every cell list built, find_point  *)
(* returns what the scan of the whole list in index order returns: the     *)
(* lowest-index cell whose polygon contains the point, or None; the        *)
(* restriction to the cells whose bounding box holds the point changes     *)
(* nothing.                                                                *)
(***************************************************************************)
C25_FindPointIsScan ==
    pc \in {"shapes_loop", "shapes_done"} =>
        \A P \in Probes : find_point(closed_shapes, P) = ScanFrom(closed_shapes, P, 1)

\* A finished mesh with a point that two cells contain, the lower-index one
\* being returned, and with a point that no cell contains.
C25_Witness ==
    /\ pc = "shapes_done"
    /\ \E P \in Probes :
           /\ Cardinality(CellsContaining(P)) >= 2
           /\ find_point(closed_shapes, P) # None
           /\ \E k \in CellsContaining(P) : find_point(closed_shapes, P)[1] < k
    /\ \E P \in Probes : find_point(closed_shapes, P) = None


\* The points of a bank on the normal line of a station of a horizontal
\* centre line, and those of them nearest to the station.
BankPointsOnNormal(bank, point) ==
    {q \in {Interpolate(bank, a) : a \in 0..Length(bank)} : q[1] = point[1]}

NearestBankPoints(bank, point) ==
    {q \in BankPointsOnNormal(bank, point) :
        \A r \in BankPointsOnNormal(bank, point) : Dist2(q, point) <= Dist2(r, point)}

\* The station point lies on the north line, not at one of its ends: the
\* normal vector is turned round.
StationOnNorth(point) ==
    \E a \in 1..(Length(north) - 1) : Interpolate(north, a) = point

(***************************************************************************)
(* C26: every transect the generator emits has a span of exactly two       *)
(* points, first the A-point and then the B-point: the A-point is an       *)
(* intersection of the station's normal line with boundary A (north) that  *)
(* no other intersection with A is nearer to the station than, the B-point *)
(* the same for boundary B (south), whether or not the normal vector was   *)
(* turned round.                                                           *)
(***************************************************************************)
C26_SpanIsNearestAThenB ==
    center_line # <<>> =>
        \A t \in Emitted :
            /\ Len(t[2]) = 2
            /\ t[2][1] \in NearestBankPoints(north, t[1])
            /\ t[2][2] \in NearestBankPoints(south, t[1])

\* The loop is over; a station on the north line, whose normal vector was
\* turned round, and a station off it both gave a transect.
C26_Witness ==
    /\ GeneratorLoopDone
    /\ pc = "remove_count"
    /\ \E k \in 1..Len(points_with_normals) :
           /\ StationOnNorth(points_with_normals[k][1])
           /\ points_with_normals[k][2][1] = points_with_normals[k][1]
    /\ \E k \in 1..Len(points_with_normals) :
           ~ StationOnNorth(points_with_normals[k][1])


(***************************************************************************)
(* C27: for every input list the resolver of processing/normals.py (R-tree *)
(* candidates, counts decremented after a removal) returns the list that   *)
(* the resolver of geometry/normals.py (all pairs counted anew after every *)
(* removal) returns: the same transects in the same order.                 *)
(***************************************************************************)
C27_SameAsNaive ==
    pc = "remove_done" => normals = naive_remove_crossing_normals(points_with_normals)

\* A call that removed two transects one after the other, the second of
\* which had its count lowered by the first removal, and returned some.
C27_Witness ==
    /\ pc = "remove_done"
    /\ iterations = 2
    /\ normals # <<>>
    /\ \E i \in 1..Len(points_with_normals) : \E j \in 1..Len(points_with_normals) :
           /\ ~ alive[i] /\ ~ alive[j] /\ i # j
           /\ intersects(points_with_normals[i][2], points_with_normals[j][2])


\* The elements of a list at the indices of K, in the order of the list.
RECURSIVE Restrict(_, _, _)
Restrict(list, K, n) ==
    IF n = 0 THEN <<>>
    ELSE IF n \in K THEN Append(Restrict(list, K, n - 1), list[n])
         ELSE Restrict(list, K, n - 1)

\* The input transects whose span intersects no other input span.
CrossesNothing ==
    {i \in 1..Len(points_with_normals) :
        \A j \in 1..Len(points_with_normals) :
            i # j => ~ intersects(points_with_normals[i][2], points_with_normals[j][2])}

(***************************************************************************)
(* C28: what remove_crossing_normals returns is its input list with some   *)
(* transects deleted: the transects kept are in their input order, none is *)
(* added or repeated; every input transect that crosses no other input     *)
(* transect is kept; and a transect is deleted only while its span         *)
(* intersects that of a transect still remaining.                          *)
(***************************************************************************)
C28_OutputIsInputWithDeletions ==
    /\ [](pc = "remove_done" =>
             \E K \in SUBSET (1..Len(points_with_normals)) :
                 /\ normals = Restrict(points_with_normals, K, Len(points_with_normals))
                 /\ CrossesNothing \subseteq K)
    /\ [][remove_crossing_normals_loop =>
              \A r \in Remaining(alive) \ Remaining(alive') :
                  \E j \in Remaining(alive') :
                      intersects(points_with_normals[r][2], points_with_normals[j][2])]_vars

\* A call on three transects that deleted the one in the middle and
\* returned the two others, one of which crossed nothing.
C28_Witness ==
    /\ pc = "remove_done"
    /\ Len(points_with_normals) = 3
    /\ alive = <<TRUE, FALSE, TRUE>>
    /\ normals = <<points_with_normals[1], points_with_normals[3]>>
    /\ CrossesNothing # {}
    /\ points_with_normals[1] # points_with_normals[3]


(***************************************************************************)
(* C29: remove_crossing_normals terminates on every list of n transects:   *)
(* every iteration of its loop removes exactly one remaining transect, so  *)
(* after k iterations n - k transects remain, the loop makes at most n     *)
(* iterations, and the call returns.                                       *)
(***************************************************************************)
C29_ResolverTerminates ==
    /\ [](pc \in {"remove_loop", "remove_done"} =>
             /\ Cardinality(Remaining(alive)) = Len(points_with_normals) - iterations
             /\ iterations <= Len(points_with_normals))
    /\ <>(pc = "remove_done")

\* A call on three transects that each cross the two others has returned
\* after two iterations.
C29_Witness ==
    /\ pc = "remove_done"
    /\ Len(points_with_normals) = 3
    /\ \A i \in 1..3 : Cardinality(InitialIntersecting(points_with_normals, i)) = 2
    /\ iterations = 2
    /\ Len(normals) = 1


\* The fragments of the call that are no longer waiting, and the number of
\* points the fragments of a set had at the call.
Consumed == (DOMAIN polylines_at_call) \ polylines_to_process

RECURSIVE PointCount(_)
PointCount(S) ==
    IF S = {} THEN 0
    ELSE LET i == CHOOSE j \in S : TRUE
         IN  Len(polylines_at_call[i].points) + PointCount(S \ {i})

\* The endpoints of a fragment that are as near to point e as its other endpoint.
NearerEndPoints(fragment, e) ==
    {q \in EndPoints(fragment) : \A r \in EndPoints(fragment) : Dist2(e, q) <= Dist2(e, r)}

(***************************************************************************)
(* C30: merge_polylines called with n >= 1 fragments takes every fragment  *)
(* once: each splice takes one waiting fragment and adds all its points    *)
(* but one, the endpoint nearest to the end it is attached to, whether or  *)
(* not that endpoint is the end of the merged curve; so the merged curve   *)
(* has the points of the fragments taken so far less one per splice, and   *)
(* the call returns, after n - 1 splices, a curve of (sum of the           *)
(* fragments' point counts) - (n - 1) points.                              *)
(***************************************************************************)
C30_EverySpliceDropsOnePoint ==
    /\ []((pc \in {"merge_loop", "merge_done"} /\ polylines_at_call # <<>>) =>
              /\ Len(merged_points) = PointCount(Consumed) - (Cardinality(Consumed) - 1)
              /\ pc = "merge_done" =>
                     /\ polylines_to_process = {}
                     /\ Len(merged_polyline.points)
                            = PointCount(DOMAIN polylines_at_call)
                                  - (Len(polylines_at_call) - 1))
    /\ [][MergeSplice =>
              /\ Cardinality(polylines_to_process') = Cardinality(polylines_to_process) - 1
              /\ \A i \in polylines_to_process \ polylines_to_process' :
                     \/ \E q \in NearerEndPoints(polylines[i], merged_points[Len(merged_points)]) :
                            merged_points' = merged_points \o Tail(ReadFrom(polylines[i], q))
                     \/ \E q \in NearerEndPoints(polylines[i], merged_points[1]) :
                            merged_points' =
                                Reverse(Tail(ReadFrom(polylines[i], q))) \o merged_points]_vars
    /\ <>(pc = "merge_done")

\* A call on three fragments has returned; an endpoint of a fragment that
\* did not touch the merged curve is not among the points of the result.
C30_Witness ==
    /\ pc = "merge_done"
    /\ Len(polylines_at_call) = 3
    /\ merged_polyline # None
    /\ Len(merged_polyline.points) = PointCount(DOMAIN polylines_at_call) - 2
    /\ \E i \in DOMAIN polylines_at_call :
           \E q \in EndPoints(polylines_at_call[i]) :
               \A k \in 1..Len(merged_polyline.points) : merged_polyline.points[k] # q

====
